---- MODULE Spec2Model ----
(***************************************************************************)
(* A model of the RPC adapter engine of koala (rpc_adapter/engine.rs):     *)
(* the cooperative resume() loop with its TX probe, completion probe and   *)
(* command probe, the per-connection credit and outstanding-request        *)
(* accounting, and the environment the engine talks to (the application    *)
(* on the TX / command channels, the RDMA transport and the remote peer).  *)
(*                                                                         *)
(* The engine is single-threaded and reads its environment at three        *)
(* points only: try_recv on the TX channel, cq.poll, try_recv on the       *)
(* command channel.  What the application does to a channel is therefore   *)
(* modelled as the outcome of the try_recv that observes it, and the       *)
(* steps of the peers and of the transport are taken where the engine is   *)
(* about to poll the completion queue.                                     *)
(*                                                                         *)
(* The throttle of resume() and the pool of receive buffers                *)
(* (rpc_adapter/pool.rs) do not interact with the datapath and have        *)
(* specifications of their own.                                            *)
(***************************************************************************)
EXTENDS Integers, Sequences, FiniteSets, TLC

(***************************************************************************)
(* Bounds of the model.                                                    *)
(***************************************************************************)
\* established connections (handles 1..MaxConns)
MaxConns == 2
\* messages the application puts on the TX channel
MaxMsgs == 3
\* requests the remote peers originate
MaxPeerReqs == 1
\* largest segment count of a message sent by a peer
MaxPeerSg == 2
\* completions other than successful receives the transport produces
MaxFaults == 2
\* largest backoff of the throttle followed step by step
MaxBackoff == 256
\* requests the application of each of two joined engines issues
MaxDuoReqs == 2
\* buffers the single thread of the sequential pool holds at a time
MaxHeld == 4
\* listeners the application binds
MaxListeners == 2
\* commands the application puts on the command channel
MaxCmds == 3
\* threads that use the buffer pool
MaxThreads == 2
\* buffers a thread holds at a time
MaxOwned == 2
\* obtain calls of a thread that releases nothing
MaxObtains == 257
\* connection requests peers address to one listener
MaxPending == 1

(***************************************************************************)
(* Program constants.                                                      *)
(***************************************************************************)
\* insert_cmid(id, 128): the initial credit of a connection
INITIAL_CREDIT == 128
\* `credit <= 5`: the low-water mark of the TX probe
LOW_WATER == 5
\* `for _ in 0..128`: receive MRs prepared per connection
RECV_DEPTH == 128
\* Vec::with_capacity(32): completions taken per poll
POLL_DEPTH == 32

\* BufferSlab::new(128, ..): buffers of a slab
SLAB_BUFFERS == 128
\* const DP_LIMIT: usize = 1 << 17, the ceiling of backoff
DP_LIMIT == 131072
\* const CMD_MAX_INTERVAL_MS: u64 = 1000
CMD_MAX_INTERVAL_MS == 1000

\* Segment counts of the application's requests: a small one, and one that
\* takes a fresh connection below the low-water mark.
SgLens == {2, 125}
\* Index of the first segment of a message that lies in no registered MR
\* (query_mr fails there); 0 when every segment is inside a registered MR.
BadSegs == {0, 1, 2}
\* func_id 0 is the only one the engine's dispatch knows
FuncIds == {0, 99}

Handles == 1..MaxConns

\* listeners the application can bind
Listeners == 1..MaxListeners

VARIABLES
    pc,             \* position inside resume()
    status,         \* what the last resume() returned
    work,           \* resume()'s local `work`
    probe_disc,     \* a probe of the current/last resume() returned Status::Disconnected
    cmid_table,     \* handle -> ConnectionContext {credit, outstanding_req, receiving_sgl}
    prepared,       \* cmids whose receive MRs have a WrContext in the WR table
    local_buffer,   \* VecDeque of messages taken from the TX channel
    held,           \* ids of the messages put back at the head for low credit
    comps,          \* completions of the current poll not handled yet
    panic_msg,      \* why the engine panicked ("none" while it runs)
    rx_outputs,     \* messages delivered to the RX datapath queue
    cmd_tx,         \* completions sent on the command-completion channel
    tx_closed,      \* the application has dropped its end of the TX channel
    cmd_closed,     \* the application has dropped its end of the command channel
    wire,           \* handle -> sends posted on that connection, in post order
    recv_taken,     \* handle -> how many of the receives posted at set-up were consumed
    reposted,       \* handle -> wr_ids reposted by the engine and not consumed, in post order
    cq,             \* the shared completion queue
    peer_pos,       \* handle -> number of sends of `wire` the peer has consumed
    peer_out,       \* handle -> segments the peer has sent, not yet arrived
    next_msg,       \* id of the next application message
    next_conn,      \* handle of the next cmid the transport builds
    peer_reqs,      \* requests originated by peers so far
    backoff,        \* RpcAdapterEngine::backoff
    dp_spin_cnt,    \* RpcAdapterEngine::dp_spin_cnt
    elapsed,        \* last_cmd_ts.elapsed() in ms, capped at CMD_MAX_INTERVAL_MS + 1
    swept,          \* check_incoming_connection ran in the last tail resume() reached
    since_sweep,    \* ms since check_incoming_connection last ran, capped alike; -1 before it ran
    sweep_gap,      \* ms between its last two runs, capped alike; -1 before it ran twice
    listener_table, \* handles of the listeners bound so far
    recent_listener_handle, \* Option<Handle>: 0 for None
    pending,        \* listener -> connection requests of peers not taken yet
    cmd_log,        \* what process_cmd returned for each command taken from cmd_rx
    slabs,          \* BufferPool::slabs: the bitmap of each slab, in push order
    slabs_lock,     \* the thread holding the spin::Mutex of BufferPool::slabs, 0 when free
    pool_pc,        \* thread -> its position inside BufferPool::obtain / release
    owned,          \* thread -> the RecvBuffers it obtained and has not released
    releasing,      \* thread -> the RecvBuffer moved into its release call
    ret,            \* thread -> what its last obtain returned
    grown,          \* thread -> slabs pushed by its current or last obtain call
    resident,       \* RecvBuffers handed out before and never released
    faults,         \* completions other than successful receives put into the CQ so far
    setup,          \* the prepare_recv_buffers call in progress: its cmid and how far it got
    hbufs,          \* two RecvBuffers whose handles are asked for
    handles,        \* what RecvBuffer::as_handle yields for them
    duo             \* two engines joined by one connection: each one's end of it

engineVars == <<pc, status, work, probe_disc, cmid_table, prepared,
                local_buffer, held, comps, panic_msg, rx_outputs, cmd_tx>>
envVars == <<tx_closed, cmd_closed, wire, recv_taken, reposted, cq,
             peer_pos, peer_out, next_msg, next_conn, peer_reqs>>
throttleVars == <<backoff, dp_spin_cnt, elapsed, swept, since_sweep, sweep_gap>>
ctlVars == <<listener_table, recent_listener_handle, pending, cmd_log>>
poolVars == <<slabs, slabs_lock, pool_pc, owned, releasing, ret, grown, resident>>
sideVars == <<faults, setup, hbufs, handles, duo>>
otherVars == <<throttleVars, ctlVars, poolVars, sideVars>>
vars == <<engineVars, envVars, otherVars>>

(***************************************************************************)
(* Helpers.                                                                *)
(***************************************************************************)
RECURSIVE SumSgLen(_)
\* the sum of sg_len over a queue of ReqContext
SumSgLen(q) == IF q = <<>> THEN 0 ELSE Head(q).sg_len + SumSgLen(Tail(q))

\* The credit counter is an AtomicUsize.  A value v of it is kept here as the
\* integer congruent to v modulo 2^64 that lies nearest to 0: a negative
\* number n stands for the stored value 2^64 + n (the counter has wrapped).
\* fetch_sub and fetch_add wrap, so they are plain - and + on that
\* representative; comparisons are made on the unsigned value.
Wrapped(credit) == credit < 0

\* conn_ctx.credit.fetch_sub(n, AcqRel)
FetchSub(credit, n) == credit - n

\* conn_ctx.credit.fetch_add(n, AcqRel)
FetchAdd(credit, n) == credit + n

\* conn_ctx.credit.load(Acquire) <= 5, an unsigned comparison
CreditLow(credit) == ~Wrapped(credit) /\ credit <= LOW_WATER

\* msg_ref.marshal(): the SgList of a message, one entry per segment
Marshal(msg) == [i \in 1..msg.sg_len |-> [msg |-> msg, idx |-> i]]

\* The send posted for entry i of an SgList: post_send for every entry but
\* the last, post_send_with_imm for the last.
PostOf(sglist, i) == [msg |-> sglist[i].msg, idx |-> sglist[i].idx,
                      imm |-> ~(i < Len(sglist))]

\* the sends posted for entries 1..n of an SgList, in order
PostsUpTo(sglist, n) == [i \in 1..n |-> PostOf(sglist, i)]

\* the handle (= wr_id) and address of the i-th receive MR allocated for
\* connection h; chosen by the transport, distinct for distinct MRs
MrHandle(h, i) == (h - 1) * RECV_DEPTH + i

\* the cmid the receive MR with handle w was allocated for
ConnOfMr(w) == ((w - 1) \div RECV_DEPTH) + 1

\* The WR table.  prepare_recv_buffers inserts the WrContext of all RECV_DEPTH
\* MRs of a cmid at once and nothing is ever removed, so the table is kept as
\* the set `prepared` of those cmids: wr_contexts.get(&w) succeeds iff the
\* cmid of w is in it, and yields WrContextOf(w).
HasWrContext(w) == ConnOfMr(w) \in prepared
WrContextOf(w) == [conn_id |-> ConnOfMr(w), mr_addr |-> w]

\* The recv-MR table.  The MRs of a cmid are inserted right after
\* insert_cmid, in the same handler, so recv_mr_table.get(&Handle(w))
\* succeeds iff the cmid of w is in cmid_table.
InRecvMrTable(w) == ConnOfMr(w) \in DOMAIN cmid_table

\* ConnectionContext as insert_cmid(id, credit) creates it
NewConnectionContext(credit) ==
    [credit |-> credit, outstanding_req |-> <<>>, receiving_sgl |-> <<>>]

\* f extended (or overwritten) at key k with value v: HashMap::insert
Insert(f, k, v) == [x \in DOMAIN f \cup {k} |-> IF x = k THEN v ELSE f[x]]

\* a faulty prepare_recv_buffers that returns one MR too few
RecvMrsShort(h) == {MrHandle(h, i) : i \in 1..(RECV_DEPTH - 1)}

\* prepare_recv_buffers: the handles of the RECV_DEPTH receive MRs it
\* allocates for cmid h and returns
RecvMrs(h) == {MrHandle(h, i) : i \in 1..RECV_DEPTH}

\* CompletionKind::ConnectInternal(handle, returned_mrs, fds): one fd per MR
ConnectInternal(h, mrs) ==
    [kind |-> "ConnectInternal", handle |-> h,
     mrs |-> Cardinality(mrs), fds |-> Cardinality(mrs)]

\* CompletionKind::NewConnectionInternal(handle, returned_mrs, fds)
NewConnectionInternal(h, mrs) ==
    [kind |-> "NewConnectionInternal", handle |-> h,
     mrs |-> Cardinality(mrs), fds |-> Cardinality(mrs)]

\* a faulty probe that reports every result as a success
CompletionAsOk(kind, h) == [kind |-> "Ok", handle |-> h, mrs |-> 0, fds |-> 0]

\* Completion(Err(e)) and the completions that carry only a handle
Completion(kind, h) == [kind |-> kind, handle |-> h, mrs |-> 0, fds |-> 0]

(***************************************************************************)
(* The pool of receive buffers (rpc_adapter/pool.rs), used by concurrent   *)
(* threads.  A slab is known by its position in BufferPool::slabs (slabs   *)
(* are never removed, and Arc::ptr_eq on the storage tells them apart); a  *)
(* buffer by its slab and its index in it.  The bitmap of a slab is the    *)
(* set of the indices whose bit is 1.  A bitmap is locked only by a thread *)
(* that holds the lock of the slab vector, so the critical section of the  *)
(* slab vector is taken in one step.                                       *)
(***************************************************************************)
PoolThreads == 1..MaxThreads

NoBuffer == [slab |-> 0, idx |-> 0]

\* RecvBuffer { offset: idx * buffer_size, storage: that of slab s }
RecvBuffer(s, i) == [slab |-> s, idx |-> i]

\* bitvec![0; num_buffers]
NewBitmap == {}

\* a faulty test that takes a slab with one unused buffer for a full one
HasUnusedButLast(bitmap) == \E i \in 0..(SLAB_BUFFERS - 2) : i \notin bitmap

\* bitmap.iter_zeros().next() is Some(..)
HasUnused(bitmap) == \E i \in 0..(SLAB_BUFFERS - 1) : i \notin bitmap

\* a faulty search that yields the highest index whose bit is 0
LastUnused(bitmap) ==
    CHOOSE i \in 0..(SLAB_BUFFERS - 1) :
        /\ i \notin bitmap
        /\ \A j \in (i + 1)..(SLAB_BUFFERS - 1) : j \in bitmap

\* bitmap.iter_zeros().next(): the lowest index whose bit is 0
FirstUnused(bitmap) ==
    CHOOSE i \in 0..(SLAB_BUFFERS - 1) :
        /\ i \notin bitmap
        /\ \A j \in 0..(i - 1) : j \in bitmap

\* a faulty set that loses the bit
SetLost(bitmap, i) == bitmap

\* bitmap.set(i, true)
Set(bitmap, i) == bitmap \cup {i}

\* a faulty clear that leaves the bit set
ClearLost(bitmap, i) == bitmap

\* bitmap.set(i, false)
Clear(bitmap, i) == bitmap \ {i}

\* `for slab in slabs.iter() { if let Some(ret) = slab.obtain() .. }`: the
\* position of the first slab with an unused buffer, 0 when there is none
FirstFit(sl) ==
    IF \E s \in 1..Len(sl) : HasUnused(sl[s])
    THEN CHOOSE s \in 1..Len(sl) :
            /\ HasUnused(sl[s])
            /\ \A r \in 1..(s - 1) : ~HasUnused(sl[r])
    ELSE 0

\* the two engines at the ends of one connection
Engines == {1, 2}

\* Two engines with one established connection between them.  For each
\* engine: the ConnectionContext of its end, its local FIFO of messages to
\* send, the messages posted to it and not yet handled, the requests
\* delivered to its application and not yet answered, and the number of
\* requests its application has issued.
DuoStart ==
    [ctx |-> [e \in Engines |-> NewConnectionContext(INITIAL_CREDIT)],
     local_buffer |-> [e \in Engines |-> <<>>],
     net |-> [e \in Engines |-> <<>>],
     rx |-> [e \in Engines |-> <<>>],
     issued |-> [e \in Engines |-> 0]]

\* no prepare_recv_buffers call in progress
NoSetup == [cmid |-> 0, posted |-> 0, inserted |-> 0, phase |-> "idle", kind |-> "none"]

\* the RecvBuffer BufferSlab::obtain makes for index idx of a slab whose
\* storage has handle `storage` and whose buffers have length len
HandleInput(storage, idx, len) == [storage |-> storage, offset |-> idx * len, len |-> len]

\* as_handle not called yet
NoHandle == [res |-> "none", high |-> 0, low |-> 0]

\* the number 1 << 16
HALF == 65536

\* a faulty combination that adds the two parts
CombineSum(high, low) ==
    [res |-> "handle", high |-> ((high + low) \div HALF) % HALF, low |-> (high + low) % HALF]

\* Handle(high * (1 << 16) + low as u32): a u32, kept as its two 16-bit
\* halves (the number is .high * 2^16 + .low); the arithmetic wraps
Combine(high, low) ==
    [res |-> "handle", high |-> (high + low \div HALF) % HALF, low |-> low % HALF]

\* RecvBuffer::as_handle: the two assertions, then the handle
AsHandle(buf) ==
    LET high == buf.storage
        low == buf.offset \div buf.len
    IN IF ~(high < HALF) THEN [res |-> "assert_high", high |-> 0, low |-> 0]
       ELSE IF ~(low < HALF) THEN [res |-> "assert_low", high |-> 0, low |-> 0]
       ELSE Combine(high, low)

\* storage handles, and (index, length) pairs of the buffers asked about
Storages == {0, 1, HALF - 1, HALF}
IdxLens == ({0, 1, 127, HALF - 1, HALF} \X {4096}) \cup ({0, 1, 127} \X {8388608})
HandleInputs == {HandleInput(st, il[1], il[2]) : st \in Storages, il \in IdxLens}

\* nothing but successful receives in the CQ, no connection being set up,
\* no handle asked for
InitSide ==
    /\ faults = 0
    /\ setup = NoSetup
    /\ hbufs = <<HandleInput(0, 0, 1), HandleInput(0, 0, 1)>>
    /\ duo = DuoStart
    /\ handles = <<NoHandle, NoHandle>>

\* BufferPool::new(), no thread inside the pool
InitPoolNew ==
    /\ slabs = <<>>
    /\ slabs_lock = 0
    /\ pool_pc = [t \in PoolThreads |-> "idle"]
    /\ owned = [t \in PoolThreads |-> <<>>]
    /\ releasing = [t \in PoolThreads |-> NoBuffer]
    /\ ret = [t \in PoolThreads |-> NoBuffer]
    /\ grown = [t \in PoolThreads |-> 0]
    /\ resident = {}

\* buffers of the first slab handed out earlier and kept (posted receives)
InitFills == {0, SLAB_BUFFERS - 1, SLAB_BUFFERS}

\* a pool in use: new, or one slab with its first n buffers handed out
InitPoolUsed ==
    /\ \E n \in InitFills :
          /\ slabs = IF n = 0 THEN <<>> ELSE <<0..(n - 1)>>
          /\ resident = {RecvBuffer(1, i) : i \in 0..(n - 1)}
    /\ slabs_lock = 0
    /\ pool_pc = [t \in PoolThreads |-> "idle"]
    /\ owned = [t \in PoolThreads |-> <<>>]
    /\ releasing = [t \in PoolThreads |-> NoBuffer]
    /\ ret = [t \in PoolThreads |-> NoBuffer]
    /\ grown = [t \in PoolThreads |-> 0]

(***************************************************************************)
(* Initial states.                                                         *)
(***************************************************************************)
\* the throttle of a fresh engine: nothing spun, the clock just read
InitThrottle ==
    /\ backoff = 1
    /\ dp_spin_cnt = 0
    /\ elapsed = 0
    /\ swept = FALSE
    /\ since_sweep = -1
    /\ sweep_gap = -1

\* the engine as constructed: no connection, empty queues
InitEngine ==
    /\ pc = "check_input_queue"
    /\ status = "None"
    /\ work = 0
    /\ probe_disc = FALSE
    /\ cmid_table = <<>>
    /\ prepared = {}
    /\ local_buffer = <<>>
    /\ held = {}
    /\ comps = <<>>
    /\ panic_msg = "none"
    /\ rx_outputs = <<>>
    /\ cmd_tx = <<>>
    /\ tx_closed = FALSE
    /\ cmd_closed = FALSE
    /\ wire = [h \in Handles |-> <<>>]
    /\ recv_taken = [h \in Handles |-> 0]
    /\ reposted = [h \in Handles |-> <<>>]
    /\ cq = <<>>
    /\ peer_pos = [h \in Handles |-> 0]
    /\ peer_out = [h \in Handles |-> <<>>]
    /\ next_msg = 1
    /\ next_conn = 1
    /\ peer_reqs = 0
    /\ listener_table = {}
    /\ recent_listener_handle = 0
    /\ pending = [l \in Listeners |-> 0]
    /\ cmd_log = <<>>

Init == InitEngine /\ InitThrottle /\ InitPoolNew /\ InitSide

\* The engine after MaxConns Connect commands have been handled with
\* success, and nothing else: every connection is fresh.
InitConnected ==
    /\ pc = "check_input_queue"
    /\ status = "Continue"
    /\ work = 0
    /\ probe_disc = FALSE
    /\ cmid_table = [h \in Handles |-> NewConnectionContext(INITIAL_CREDIT)]
    /\ prepared = Handles
    /\ local_buffer = <<>>
    /\ held = {}
    /\ comps = <<>>
    /\ panic_msg = "none"
    /\ rx_outputs = <<>>
    /\ cmd_tx = [h \in Handles |-> ConnectInternal(h, RecvMrs(h))]
    /\ tx_closed = FALSE
    /\ cmd_closed = FALSE
    /\ wire = [h \in Handles |-> <<>>]
    /\ recv_taken = [h \in Handles |-> 0]
    /\ reposted = [h \in Handles |-> <<>>]
    /\ cq = <<>>
    /\ peer_pos = [h \in Handles |-> 0]
    /\ peer_out = [h \in Handles |-> <<>>]
    /\ next_msg = 1
    /\ next_conn = MaxConns + 1
    /\ peer_reqs = 0
    /\ InitThrottle
    /\ listener_table = {}
    /\ recent_listener_handle = 0
    /\ pending = [l \in Listeners |-> 0]
    /\ cmd_log = [h \in Handles |-> [cmd |-> "Connect", result |-> "Ok"]]
    /\ InitPoolNew
    /\ InitSide

(***************************************************************************)
(* resume(): the TX probe, check_input_queue.                              *)
(***************************************************************************)
\* resume() returns Err(..): a `?` inside a probe propagated an error
ReturnErr ==
    /\ pc' = "check_input_queue"
    /\ status' = "Err"

\* a faulty back-pressure test: a message is held back only when its
\* connection has no credit left at all
HeadBlockedAtZero ==
    /\ local_buffer # <<>>
    /\ Head(local_buffer).conn_id \in DOMAIN cmid_table
    /\ cmid_table[Head(local_buffer).conn_id].credit = 0

\* a faulty back-pressure test: a message once put back stays held, whatever
\* the credit of its connection has become
HeadBlockedLatched ==
    /\ local_buffer # <<>>
    /\ Head(local_buffer).conn_id \in DOMAIN cmid_table
    /\ \/ CreditLow(cmid_table[Head(local_buffer).conn_id].credit)
       \/ Head(local_buffer).id \in held

\* the head of local_buffer is held back: its connection has credit <= 5
HeadBlocked ==
    /\ local_buffer # <<>>
    /\ Head(local_buffer).conn_id \in DOMAIN cmid_table
    /\ CreditLow(cmid_table[Head(local_buffer).conn_id].credit)

\* a faulty requeue: push_back in place of push_front
RequeueAtBack(rest, msg) == rest \o <<msg>>

\* self.local_buffer.push_front(msg), on what pop_front left
Requeue(rest, msg) == <<msg>> \o rest

\* cmid_table.get(&cmid_handle)? fails: the popped message is dropped
TxConnMiss ==
    /\ pc = "check_input_queue"
    /\ local_buffer # <<>>
    /\ Head(local_buffer).conn_id \notin DOMAIN cmid_table
    /\ local_buffer' = Tail(local_buffer)
    /\ work' = 0
    /\ probe_disc' = FALSE
    /\ ReturnErr
    /\ UNCHANGED <<cmid_table, prepared, held, comps, panic_msg, rx_outputs, cmd_tx>>
    /\ UNCHANGED envVars
    /\ UNCHANGED otherVars

\* the connection context after the credit deduction of a request
Deduct(ctx, msg, sglist) ==
    IF msg.msg_type = "Request"
    THEN [ctx EXCEPT !.credit = FetchSub(@, Len(sglist)),
                     !.outstanding_req =
                         Append(@, [call_id |-> msg.call_id, sg_len |-> Len(sglist)])]
    ELSE ctx

\* The head of local_buffer is popped, marshalled and posted.  If query_mr
\* fails for entry `bad` of the SgList, the entries before it have been
\* posted and the error is returned.
TxPost ==
    /\ pc = "check_input_queue"
    /\ local_buffer # <<>>
    /\ Head(local_buffer).conn_id \in DOMAIN cmid_table
    /\ ~HeadBlocked
    /\ LET msg == Head(local_buffer)
           h == msg.conn_id
           sglist == Marshal(msg)
           miss == msg.bad # 0 /\ msg.bad <= Len(sglist)
           n == IF miss THEN msg.bad - 1 ELSE Len(sglist)
       IN /\ local_buffer' = Tail(local_buffer)
          /\ cmid_table' = [cmid_table EXCEPT ![h] = Deduct(@, msg, sglist)]
          /\ wire' = [wire EXCEPT ![h] = @ \o PostsUpTo(sglist, n)]
          /\ probe_disc' = FALSE
          /\ IF miss
             THEN work' = 0 /\ ReturnErr
             ELSE work' = 1 /\ pc' = "check_transport_service" /\ UNCHANGED status
    /\ UNCHANGED <<prepared, held, comps, panic_msg, rx_outputs, cmd_tx>>
    /\ UNCHANGED <<tx_closed, cmd_closed, recv_taken, reposted, cq,
                   peer_pos, peer_out, next_msg, next_conn, peer_reqs>>
    /\ UNCHANGED otherVars

\* What the `while let` loop leaves in local_buffer when it posts nothing:
\* the buffer was empty, or its head was popped and put back for low credit.
AfterLoop ==
    IF HeadBlocked THEN Requeue(Tail(local_buffer), Head(local_buffer)) ELSE local_buffer

\* the ids put back so far, after the loop
HeldAfterLoop == IF HeadBlocked THEN held \cup {Head(local_buffer).id} ELSE held

\* The shapes of the messages the application sends: type, segment count,
\* and the index of the first segment outside every registered MR (0: none).
MsgShapes ==
    {[msg_type |-> "Request", sg_len |-> sg, bad |-> 0] : sg \in SgLens}
    \cup {[msg_type |-> "Request", sg_len |-> 2, bad |-> b] : b \in BadSegs}
    \cup {[msg_type |-> "Response", sg_len |-> 2, bad |-> 0]}

\* a handle that is in no table
UnknownHandle == MaxConns + 1

\* what the application sends on established connections
AppMsgs ==
    {[conn_id |-> h, msg_type |-> shape.msg_type, sg_len |-> shape.sg_len,
      bad |-> shape.bad] : h \in Handles, shape \in MsgShapes}

\* a request to a handle that is in no table
StrayMsgs == {[conn_id |-> UnknownHandle, msg_type |-> "Request", sg_len |-> 2, bad |-> 0]}

\* try_recv() on the TX channel yields Ok(msg): the application had sent
\* the message m.  Its id and call_id are fresh.
TxRecvMsg(m) ==
    /\ pc = "check_input_queue"
    /\ local_buffer = <<>> \/ HeadBlocked
    /\ ~tx_closed
    /\ next_msg <= MaxMsgs
    /\ local_buffer' = Append(AfterLoop,
                [id |-> next_msg, conn_id |-> m.conn_id, msg_type |-> m.msg_type,
                 call_id |-> next_msg, sg_len |-> m.sg_len, bad |-> m.bad])
    /\ held' = HeldAfterLoop
    /\ next_msg' = next_msg + 1
    /\ probe_disc' = FALSE
    /\ work' = 0
    /\ pc' = "check_transport_service"
    /\ UNCHANGED <<status, cmid_table, prepared, comps, panic_msg, rx_outputs, cmd_tx>>
    /\ UNCHANGED <<tx_closed, cmd_closed, wire, recv_taken, reposted, cq,
                   peer_pos, peer_out, next_conn, peer_reqs>>
    /\ UNCHANGED otherVars

\* try_recv() on the TX channel yields Err(Empty)
TxRecvEmpty ==
    /\ pc = "check_input_queue"
    /\ local_buffer = <<>> \/ HeadBlocked
    /\ ~tx_closed
    /\ local_buffer' = AfterLoop
    /\ held' = HeldAfterLoop
    /\ probe_disc' = FALSE
    /\ work' = 0
    /\ pc' = "check_transport_service"
    /\ UNCHANGED <<status, cmid_table, prepared, comps, panic_msg, rx_outputs, cmd_tx>>
    /\ UNCHANGED envVars
    /\ UNCHANGED otherVars

\* try_recv() on the TX channel yields Err(Disconnected): the application
\* has dropped its end and the channel is drained.  The probe returns
\* Status::Disconnected.
TxRecvDisconnected ==
    /\ pc = "check_input_queue"
    /\ local_buffer = <<>> \/ HeadBlocked
    /\ tx_closed' = TRUE
    /\ local_buffer' = AfterLoop
    /\ held' = HeldAfterLoop
    /\ probe_disc' = TRUE
    /\ work' = 0
    /\ pc' = "check_transport_service"
    /\ UNCHANGED <<status, cmid_table, prepared, comps, panic_msg, rx_outputs, cmd_tx>>
    /\ UNCHANGED <<cmd_closed, wire, recv_taken, reposted, cq,
                   peer_pos, peer_out, next_msg, next_conn, peer_reqs>>
    /\ UNCHANGED otherVars

CheckInputQueue ==
    \/ TxConnMiss
    \/ TxPost
    \/ \E m \in AppMsgs \cup StrayMsgs : TxRecvMsg(m)
    \/ TxRecvEmpty
    \/ TxRecvDisconnected

(***************************************************************************)
(* The transport and the remote peers.  Their steps are visible to the     *)
(* engine through cq.poll only, so they are taken where the engine is      *)
(* about to poll: a send posted by the TX probe can be answered before the *)
(* poll of the same resume().                                              *)
(***************************************************************************)
\* the segments of a message a peer sends: WITH_IMM on the last one
PeerSegments(m) == [i \in 1..m.sg_len |-> [msg |-> m, idx |-> i, imm |-> (i = m.sg_len)]]

\* index of the first send-with-immediate on connection h the peer has not consumed
NextImm(h) ==
    CHOOSE j \in (peer_pos[h] + 1)..Len(wire[h]) :
        /\ wire[h][j].imm
        /\ \A k \in (peer_pos[h] + 1)..(j - 1) : ~wire[h][k].imm

\* The peer of connection h takes the next complete message off the wire
\* (everything up to the next send-with-immediate; the header is its first
\* segment).  It answers a request with one response carrying the request's
\* call_id, so responses are produced once per request, in request order.
\* The response has sg segments and names the function f.
PeerConsume(h, sg, f) ==
    /\ pc = "check_transport_service"
    /\ h \in DOMAIN cmid_table
    /\ \E j \in (peer_pos[h] + 1)..Len(wire[h]) : wire[h][j].imm
    /\ LET header == wire[h][peer_pos[h] + 1].msg
       IN IF header.msg_type = "Request"
          THEN peer_out' = [peer_out EXCEPT ![h] = @ \o PeerSegments(
                      [msg_type |-> "Response", call_id |-> header.call_id,
                       func_id |-> f, conn_id |-> h + MaxConns, sg_len |-> sg])]
          ELSE UNCHANGED peer_out
    /\ peer_pos' = [peer_pos EXCEPT ![h] = NextImm(h)]
    /\ UNCHANGED engineVars
    /\ UNCHANGED <<tx_closed, cmd_closed, wire, recv_taken, reposted, cq,
                   next_msg, next_conn, peer_reqs>>
    /\ UNCHANGED otherVars

\* the peer of connection h originates a request of sg segments for function f
PeerRequest(h, sg, f) ==
    /\ pc = "check_transport_service"
    /\ h \in DOMAIN cmid_table
    /\ peer_reqs < MaxPeerReqs
    /\ peer_out' = [peer_out EXCEPT ![h] = @ \o PeerSegments(
              [msg_type |-> "Request", call_id |-> peer_reqs + 1,
               func_id |-> f, conn_id |-> h + MaxConns, sg_len |-> sg])]
    /\ peer_reqs' = peer_reqs + 1
    /\ UNCHANGED engineVars
    /\ UNCHANGED <<tx_closed, cmd_closed, wire, recv_taken, reposted, cq,
                   peer_pos, next_msg, next_conn>>
    /\ UNCHANGED otherVars

\* The receives posted on connection h and not consumed, oldest first: what
\* is left of the RECV_DEPTH receives of prepare_recv_buffers, then the
\* reposted ones.
PostedRecv(h) ==
    IF h \in prepared
    THEN [i \in 1..(RECV_DEPTH - recv_taken[h]) |-> MrHandle(h, recv_taken[h] + i)]
         \o reposted[h]
    ELSE <<>>

\* The next segment sent by the peer of h arrives: it consumes the oldest
\* posted receive of h and a recv completion enters the shared CQ.
NicDeliver(h) ==
    /\ pc = "check_transport_service"
    /\ peer_out[h] # <<>>
    /\ PostedRecv(h) # <<>>
    /\ cq' = Append(cq, [wr_id |-> Head(PostedRecv(h)),
                         status |-> "Success", opcode |-> "Recv",
                         data |-> [msg |-> Head(peer_out[h]).msg, idx |-> Head(peer_out[h]).idx],
                         with_imm |-> Head(peer_out[h]).imm])
    /\ IF recv_taken[h] < RECV_DEPTH
       THEN recv_taken' = [recv_taken EXCEPT ![h] = @ + 1] /\ UNCHANGED reposted
       ELSE reposted' = [reposted EXCEPT ![h] = Tail(@)] /\ UNCHANGED recv_taken
    /\ peer_out' = [peer_out EXCEPT ![h] = Tail(@)]
    /\ UNCHANGED engineVars
    /\ UNCHANGED <<tx_closed, cmd_closed, wire, peer_pos, next_msg, next_conn, peer_reqs>>
    /\ UNCHANGED otherVars

\* what a completion that delivers nothing carries
NoData ==
    [msg |-> [msg_type |-> "Request", call_id |-> 0, func_id |-> 0,
              conn_id |-> 0, sg_len |-> 1],
     idx |-> 1]

\* the status of a work completion
WcStatuses == {"Success", "Error"}

\* opcodes of work completions that are neither Send nor Recv
OtherOpcodes == {"Invalid", "Write"}

\* what the completion actions below leave alone
CompletionFrame ==
    /\ UNCHANGED engineVars
    /\ UNCHANGED <<tx_closed, cmd_closed, wire, peer_pos, peer_out,
                   next_msg, next_conn, peer_reqs>>
    /\ UNCHANGED <<throttleVars, ctlVars, poolVars>>
    /\ UNCHANGED <<setup, hbufs, handles, duo>>

\* A send of connection h completes with status st.  Every send is posted
\* SIGNALED with wr_id 0.
NicSendDone(h, st) ==
    /\ pc = "check_transport_service"
    /\ faults < MaxFaults
    /\ wire[h] # <<>>
    /\ cq' = Append(cq, [wr_id |-> 0, status |-> st, opcode |-> "Send",
                         data |-> NoData, with_imm |-> FALSE])
    /\ faults' = faults + 1
    /\ UNCHANGED <<recv_taken, reposted>>
    /\ CompletionFrame

\* The oldest posted receive of connection h completes with an error status.
NicRecvError(h) ==
    /\ pc = "check_transport_service"
    /\ faults < MaxFaults
    /\ PostedRecv(h) # <<>>
    /\ cq' = Append(cq, [wr_id |-> Head(PostedRecv(h)), status |-> "Error",
                         opcode |-> "Recv", data |-> NoData, with_imm |-> FALSE])
    /\ IF recv_taken[h] < RECV_DEPTH
       THEN recv_taken' = [recv_taken EXCEPT ![h] = @ + 1] /\ UNCHANGED reposted
       ELSE reposted' = [reposted EXCEPT ![h] = Tail(@)] /\ UNCHANGED recv_taken
    /\ faults' = faults + 1
    /\ CompletionFrame

\* a successful completion whose opcode op is neither Send nor Recv
NicOther(op) ==
    /\ pc = "check_transport_service"
    /\ faults < MaxFaults
    /\ cq' = Append(cq, [wr_id |-> 0, status |-> "Success", opcode |-> op,
                         data |-> NoData, with_imm |-> FALSE])
    /\ faults' = faults + 1
    /\ UNCHANGED <<recv_taken, reposted>>
    /\ CompletionFrame

(***************************************************************************)
(* resume(): the completion probe, check_transport_service.                *)
(***************************************************************************)
\* cq.poll(&mut comps): up to POLL_DEPTH completions leave the CQ
CheckTransportService ==
    /\ pc = "check_transport_service"
    /\ LET n == IF Len(cq) < POLL_DEPTH THEN Len(cq) ELSE POLL_DEPTH
       IN /\ comps' = SubSeq(cq, 1, n)
          /\ cq' = SubSeq(cq, n + 1, Len(cq))
          /\ pc' = IF n = 0 THEN "check_input_cmd_queue" ELSE "handle_wc"
    /\ UNCHANGED <<status, work, probe_disc, cmid_table, prepared,
                   local_buffer, held, panic_msg, rx_outputs, cmd_tx>>
    /\ UNCHANGED <<tx_closed, cmd_closed, wire, recv_taken, reposted,
                   peer_pos, peer_out, next_msg, next_conn, peer_reqs>>
    /\ UNCHANGED otherVars

\* a faulty unmarshal that keeps the conn_id the sender wrote
UnmarshalMetaAsSent(sgl, h) ==
    [conn_id |-> sgl[1].data.msg.conn_id,
     call_id |-> sgl[1].data.msg.call_id,
     func_id |-> sgl[1].data.msg.func_id,
     msg_type |-> sgl[1].data.msg.msg_type]

\* MessageTemplateErased::unmarshal(sgl): the header is read from the first
\* entry of the SgList; meta.conn_id is then overwritten with the cmid handle.
UnmarshalMeta(sgl, h) ==
    [conn_id |-> h,
     call_id |-> sgl[1].data.msg.call_id,
     func_id |-> sgl[1].data.msg.func_id,
     msg_type |-> sgl[1].data.msg.msg_type]

\* a faulty replenishment: one credit per response, whatever the request took
ReplenishPerMessage(ctx, meta) ==
    IF meta.msg_type # "Response"
    THEN [ctx |-> ctx, panic |-> "none"]
    ELSE IF ctx.outstanding_req = <<>>
    THEN [ctx |-> ctx, panic |-> "unwrap_none"]
    ELSE LET req_ctx == Head(ctx.outstanding_req)
             popped == [ctx EXCEPT !.outstanding_req = Tail(@)]
         IN IF meta.call_id # req_ctx.call_id
            THEN [ctx |-> popped, panic |-> "assert_call_id"]
            ELSE [ctx |-> [popped EXCEPT !.credit = FetchAdd(@, 1)],
                  panic |-> "none"]

\* "replenish the credits": what the response branch of
\* unmarshal_and_deliver_up does to the connection context.  The result
\* names the panic that stopped it, if any.
Replenish(ctx, meta) ==
    IF meta.msg_type # "Response"
    THEN [ctx |-> ctx, panic |-> "none"]
    ELSE IF ctx.outstanding_req = <<>>
    THEN [ctx |-> ctx, panic |-> "unwrap_none"]
    ELSE LET req_ctx == Head(ctx.outstanding_req)
             popped == [ctx EXCEPT !.outstanding_req = Tail(@)]
         IN IF meta.call_id # req_ctx.call_id
            THEN [ctx |-> popped, panic |-> "assert_call_id"]
            ELSE [ctx |-> [popped EXCEPT !.credit = FetchAdd(@, req_ctx.sg_len)],
                  panic |-> "none"]

\* the dispatch on (msg_type, func_id): only func_id 0 is known
KnownFunc(meta) == meta.func_id = 0

\* a faulty take: the SgList is cloned and receiving_sgl keeps its entries
TakeSglKeep(ctx) == ctx

\* mem::take(conn_ctx.receiving_sgl.lock().deref_mut()): what it leaves in
\* the connection context (an empty SgList); the taken SgList is delivered
TakeSgl(ctx) == [ctx EXCEPT !.receiving_sgl = <<>>]

\* a faulty end of the Recv arm that goes on without posting the receive
RepostNever(h, wc) ==
    /\ comps' = Tail(comps)
    /\ pc' = IF Tail(comps) = <<>> THEN "check_input_cmd_queue" ELSE "handle_wc"
    /\ UNCHANGED <<status, reposted>>

\* The end of the Recv arm: recv_mr_table.get(&Handle(wc.wr_id))? and
\* cmid.post_recv(recv_mr, .., wc.wr_id); then the loop goes on, or the
\* probe returns Progress(0) after the last completion.
Repost(h, wc) ==
    IF InRecvMrTable(wc.wr_id)
    THEN /\ reposted' = [reposted EXCEPT ![h] = Append(@, wc.wr_id)]
         /\ comps' = Tail(comps)
         /\ pc' = IF Tail(comps) = <<>> THEN "check_input_cmd_queue" ELSE "handle_wc"
         /\ UNCHANGED status
    ELSE /\ ReturnErr
         /\ comps' = <<>>
         /\ UNCHANGED reposted

\* a faulty status test that takes every completion for a success
WcFailedNever(wc) == FALSE

\* match wc.status: WcStatus::Error(_)
WcFailed(wc) == wc.status = "Error"

\* the completion is logged or ignored, and the loop goes on
SkipWc ==
    /\ comps' = Tail(comps)
    /\ pc' = IF Tail(comps) = <<>> THEN "check_input_cmd_queue" ELSE "handle_wc"
    /\ UNCHANGED <<status, cmid_table, rx_outputs, reposted, panic_msg>>

\* One completion of the polled batch is handled.  A failed completion is
\* logged; a successful send does nothing; a successful completion that is
\* neither Send nor Recv panics.  A recv appends its segment to
\* receiving_sgl; with WITH_IMM the SgList is taken and delivered up; last,
\* the receive is reposted under the same wr_id.
HandleWc ==
    /\ pc = "handle_wc"
    /\ comps # <<>>
    /\ LET wc == Head(comps)
       IN IF WcFailed(wc) \/ wc.opcode = "Send"
          THEN SkipWc
          ELSE IF wc.opcode # "Recv"
          THEN /\ panic_msg' = IF wc.opcode = "Invalid" THEN "invalid_wc"
                                                        ELSE "unhandled_wc_opcode"
               /\ pc' = "panicked"
               /\ UNCHANGED <<cmid_table, rx_outputs, reposted, comps, status>>
          ELSE IF ~HasWrContext(wc.wr_id)
          THEN /\ ReturnErr
               /\ comps' = <<>>
               /\ UNCHANGED <<cmid_table, rx_outputs, reposted, panic_msg>>
          ELSE
          LET wr_ctx == WrContextOf(wc.wr_id)
              h == wr_ctx.conn_id
          IN IF h \notin DOMAIN cmid_table
             THEN /\ ReturnErr
                  /\ comps' = <<>>
                  /\ UNCHANGED <<cmid_table, rx_outputs, reposted, panic_msg>>
             ELSE
             LET sge == [ptr |-> wr_ctx.mr_addr, data |-> wc.data]
                 pushed == [cmid_table[h] EXCEPT !.receiving_sgl = Append(@, sge)]
                 sgl == pushed.receiving_sgl
                 taken == TakeSgl(pushed)
                 meta == UnmarshalMeta(sgl, h)
                 rep == Replenish(taken, meta)
             IN IF ~wc.with_imm
                THEN /\ cmid_table' = [cmid_table EXCEPT ![h] = pushed]
                     /\ UNCHANGED <<rx_outputs, panic_msg>>
                     /\ Repost(h, wc)
                ELSE IF rep.panic # "none"
                THEN /\ cmid_table' = [cmid_table EXCEPT ![h] = rep.ctx]
                     /\ panic_msg' = rep.panic
                     /\ pc' = "panicked"
                     /\ UNCHANGED <<rx_outputs, reposted, comps, status>>
                ELSE IF ~KnownFunc(meta)
                THEN /\ cmid_table' = [cmid_table EXCEPT ![h] = rep.ctx]
                     /\ panic_msg' = "unknown_func_id"
                     /\ pc' = "panicked"
                     /\ UNCHANGED <<rx_outputs, reposted, comps, status>>
                ELSE /\ cmid_table' = [cmid_table EXCEPT ![h] = rep.ctx]
                     /\ rx_outputs' = Append(rx_outputs, [meta |-> meta, sgl |-> sgl])
                     /\ UNCHANGED panic_msg
                     /\ Repost(h, wc)
    /\ UNCHANGED <<work, probe_disc, prepared, local_buffer, held, cmd_tx>>
    /\ UNCHANGED <<tx_closed, cmd_closed, wire, recv_taken, cq,
                   peer_pos, peer_out, next_msg, next_conn, peer_reqs>>
    /\ UNCHANGED otherVars

(***************************************************************************)
(* resume(): the command probe (check_input_cmd_queue, process_cmd) and    *)
(* the tail of resume().  A Status::Disconnected returned by a probe       *)
(* matches no `if let Progress(n)` and is dropped; a `?` error returns     *)
(* Err; every other path ends in Ok(EngineStatus::Continue).  The backoff  *)
(* counters of the tail do not influence the datapath.                     *)
(***************************************************************************)
ReturnContinue ==
    /\ pc' = "check_input_queue"
    /\ status' = "Continue"
    /\ work' = 0

\* a faulty probe whose result ends resume() with an error
ToErr(n) ==
    /\ pc' = "check_input_queue"
    /\ status' = "Err"
    /\ work' = 0

\* check_input_cmd_queue returned Ok(Progress(n)) or Ok(Status::Disconnected):
\* resume() goes on to its tail
ToThrottle(n) ==
    /\ pc' = "throttle"
    /\ work' = work + n
    /\ UNCHANGED status

\* cmd_rx.try_recv() yields Err(Empty): the probe returns Progress(0)
CmdEmpty ==
    /\ pc = "check_input_cmd_queue"
    /\ ~cmd_closed
    /\ ToThrottle(0)
    /\ UNCHANGED <<probe_disc, cmid_table, prepared, local_buffer, held, comps,
                   panic_msg, rx_outputs, cmd_tx>>
    /\ UNCHANGED envVars
    /\ UNCHANGED otherVars

\* cmd_rx.try_recv() yields Err(Disconnected): the application has dropped
\* its end of the command channel; the probe returns Status::Disconnected
CmdDisconnected ==
    /\ pc = "check_input_cmd_queue"
    /\ cmd_closed' = TRUE
    /\ probe_disc' = TRUE
    /\ ToThrottle(0)
    /\ UNCHANGED <<cmid_table, prepared, local_buffer, held, comps,
                   panic_msg, rx_outputs, cmd_tx>>
    /\ UNCHANGED <<tx_closed, wire, recv_taken, reposted, cq,
                   peer_pos, peer_out, next_msg, next_conn, peer_reqs>>
    /\ UNCHANGED otherVars

\* cmd_rx.try_recv() yields Ok(req): the guard of every command action
CmdTaken ==
    /\ pc = "check_input_cmd_queue"
    /\ ~cmd_closed
    /\ Len(cmd_log) < MaxCmds

\* the command taken and what process_cmd returned for it
Logged(cmd, result) == Append(cmd_log, [cmd |-> cmd, result |-> result])

\* cmd_rx.try_recv() yields a Command::Connect.  The transport names the new
\* cmid by the next handle; prepare_recv_buffers posts its RECV_DEPTH
\* receives and inserts their WrContexts; then the transport connects (ok)
\* or fails.  On success the connection and its MRs are registered.
CmdConnect ==
    /\ CmdTaken
    /\ next_conn <= MaxConns
    /\ LET h == next_conn
       IN /\ prepared' = prepared \cup {h}
          /\ \E ok \in BOOLEAN :
                IF ok
                THEN /\ cmid_table' = Insert(cmid_table, h, NewConnectionContext(INITIAL_CREDIT))
                     /\ cmd_tx' = Append(cmd_tx, ConnectInternal(h, RecvMrs(h)))
                     /\ cmd_log' = Logged("Connect", "Ok")
                ELSE /\ cmd_tx' = Append(cmd_tx, Completion("Err", h))
                     /\ cmd_log' = Logged("Connect", "Err")
                     /\ UNCHANGED cmid_table
    /\ next_conn' = next_conn + 1
    /\ ToThrottle(1)
    /\ UNCHANGED <<probe_disc, local_buffer, held, comps, panic_msg, rx_outputs>>
    /\ UNCHANGED <<tx_closed, cmd_closed, wire, recv_taken, reposted, cq,
                   peer_pos, peer_out, next_msg, peer_reqs>>
    /\ UNCHANGED <<throttleVars, listener_table, recent_listener_handle, pending>>
    /\ UNCHANGED <<poolVars, sideVars>>

\* cmd_rx.try_recv() yields a Command::Bind for the address of listener l:
\* the transport binds (ok) or fails; on success the listener is inserted
\* and becomes the recent one.
CmdBind(l) ==
    /\ CmdTaken
    /\ \E ok \in BOOLEAN :
          IF ok /\ l \notin listener_table
          THEN /\ listener_table' = listener_table \cup {l}
               /\ recent_listener_handle' = l
               /\ cmd_tx' = Append(cmd_tx, Completion("Bind", l))
               /\ cmd_log' = Logged("Bind", "Ok")
          ELSE /\ cmd_tx' = Append(cmd_tx, Completion("Err", l))
               /\ cmd_log' = Logged("Bind", "Err")
               /\ UNCHANGED <<listener_table, recent_listener_handle>>
    /\ ToThrottle(1)
    /\ UNCHANGED <<probe_disc, cmid_table, prepared, local_buffer, held, comps,
                   panic_msg, rx_outputs>>
    /\ UNCHANGED envVars
    /\ UNCHANGED <<throttleVars, pending>>
    /\ UNCHANGED <<poolVars, sideVars>>

\* MR handles a NewMappedAddrs command may name: the first receive MR of
\* each cmid the transport can build
MappedMrs == {MrHandle(h, 1) : h \in Handles}

\* cmd_rx.try_recv() yields a Command::NewMappedAddrs naming the MRs ws:
\* recv_mr_table.get fails on the first one that is not in the table.
CmdNewMappedAddrs(ws) ==
    /\ CmdTaken
    /\ IF \A w \in ws : InRecvMrTable(w)
       THEN /\ cmd_tx' = Append(cmd_tx, Completion("NewMappedAddrsInternal", 0))
            /\ cmd_log' = Logged("NewMappedAddrs", "Ok")
       ELSE /\ cmd_tx' = Append(cmd_tx, Completion("Err", 0))
            /\ cmd_log' = Logged("NewMappedAddrs", "Err")
    /\ ToThrottle(1)
    /\ UNCHANGED <<probe_disc, cmid_table, prepared, local_buffer, held, comps,
                   panic_msg, rx_outputs>>
    /\ UNCHANGED envVars
    /\ UNCHANGED <<throttleVars, listener_table, recent_listener_handle, pending>>
    /\ UNCHANGED <<poolVars, sideVars>>

\* the sentinels of ControlPathError and the progress the probe reports
Sentinels == {"InProgress", "NoResponse"}
SentinelProgress(e) == IF e = "InProgress" THEN 0 ELSE 1

\* cmd_rx.try_recv() yields a command for which process_cmd returns the
\* sentinel e: the probe returns without sending a completion.
CmdSentinel(e) ==
    /\ CmdTaken
    /\ cmd_log' = Logged("Deferred", e)
    /\ ToThrottle(SentinelProgress(e))
    /\ UNCHANGED <<probe_disc, cmid_table, prepared, local_buffer, held, comps,
                   panic_msg, rx_outputs, cmd_tx>>
    /\ UNCHANGED envVars
    /\ UNCHANGED <<throttleVars, listener_table, recent_listener_handle, pending>>
    /\ UNCHANGED <<poolVars, sideVars>>

CheckInputCmdQueue ==
    \/ CmdEmpty
    \/ CmdDisconnected
    \/ CmdConnect
    \/ \E l \in Listeners : CmdBind(l)
    \/ \E ws \in (SUBSET MappedMrs) \ {{}} : CmdNewMappedAddrs(ws)
    \/ \E e \in Sentinels : CmdSentinel(e)

(***************************************************************************)
(* resume(): the tail.  Whether check_incoming_connection runs in it is    *)
(* decided by dp_spin_cnt, backoff and the clock; the actions below leave  *)
(* that decision open, the Throttle actions further down compute it.       *)
(***************************************************************************)
\* the tail without check_incoming_connection: dp_spin_cnt < backoff, or
\* last_cmd_ts is at most CMD_MAX_INTERVAL_MS old
TailReturn ==
    /\ pc = "throttle"
    /\ ReturnContinue
    /\ swept' = FALSE
    /\ UNCHANGED <<probe_disc, cmid_table, prepared, local_buffer, held, comps,
                   panic_msg, rx_outputs, cmd_tx>>
    /\ UNCHANGED envVars
    /\ UNCHANGED <<backoff, dp_spin_cnt, elapsed, since_sweep, sweep_gap, ctlVars>>
    /\ UNCHANGED <<poolVars, sideVars>>

\* check_incoming_connection with recent_listener_handle = None: Progress(0)
SweepNoListener ==
    /\ pc = "throttle"
    /\ recent_listener_handle = 0
    /\ ReturnContinue
    /\ swept' = TRUE
    /\ UNCHANGED <<probe_disc, cmid_table, prepared, local_buffer, held, comps,
                   panic_msg, rx_outputs, cmd_tx>>
    /\ UNCHANGED envVars
    /\ UNCHANGED <<backoff, dp_spin_cnt, elapsed, since_sweep, sweep_gap, ctlVars>>
    /\ UNCHANGED <<poolVars, sideVars>>

\* check_incoming_connection: try_get_request() on the recent listener
\* yields None
SweepNoRequest ==
    /\ pc = "throttle"
    /\ recent_listener_handle # 0
    /\ pending[recent_listener_handle] = 0
    /\ ReturnContinue
    /\ swept' = TRUE
    /\ UNCHANGED <<probe_disc, cmid_table, prepared, local_buffer, held, comps,
                   panic_msg, rx_outputs, cmd_tx>>
    /\ UNCHANGED envVars
    /\ UNCHANGED <<backoff, dp_spin_cnt, elapsed, since_sweep, sweep_gap, ctlVars>>
    /\ UNCHANGED <<poolVars, sideVars>>

\* check_incoming_connection: try_get_request() on the recent listener
\* yields a request.  The transport names the new cmid by the next handle;
\* prepare_recv_buffers posts its receives and inserts their WrContexts;
\* then accept succeeds (ok), and the connection and its MRs are registered
\* and reported, or fails, and `?` ends resume() with the error.
SweepAccept ==
    /\ pc = "throttle"
    /\ recent_listener_handle # 0
    /\ pending[recent_listener_handle] > 0
    /\ next_conn <= MaxConns
    /\ pending' = [pending EXCEPT ![recent_listener_handle] = @ - 1]
    /\ LET h == next_conn
       IN /\ prepared' = prepared \cup {h}
          /\ \E ok \in BOOLEAN :
                IF ok
                THEN /\ cmid_table' = Insert(cmid_table, h, NewConnectionContext(INITIAL_CREDIT))
                     /\ cmd_tx' = Append(cmd_tx, NewConnectionInternal(h, RecvMrs(h)))
                     /\ ReturnContinue
                ELSE /\ ReturnErr
                     /\ work' = 0
                     /\ UNCHANGED <<cmid_table, cmd_tx>>
    /\ next_conn' = next_conn + 1
    /\ swept' = TRUE
    /\ UNCHANGED <<probe_disc, local_buffer, held, comps, panic_msg, rx_outputs>>
    /\ UNCHANGED <<tx_closed, cmd_closed, wire, recv_taken, reposted, cq,
                   peer_pos, peer_out, next_msg, peer_reqs>>
    /\ UNCHANGED <<backoff, dp_spin_cnt, elapsed, since_sweep, sweep_gap,
                   listener_table, recent_listener_handle, cmd_log>>
    /\ UNCHANGED <<poolVars, sideVars>>

CheckIncomingConnection == SweepNoListener \/ SweepNoRequest \/ SweepAccept

\* a peer asks listener l for a connection
PeerConnect(l) ==
    /\ pc = "throttle"
    /\ l \in listener_table
    /\ pending[l] < MaxPending
    /\ pending' = [pending EXCEPT ![l] = @ + 1]
    /\ UNCHANGED engineVars
    /\ UNCHANGED envVars
    /\ UNCHANGED <<throttleVars, listener_table, recent_listener_handle, cmd_log>>
    /\ UNCHANGED <<poolVars, sideVars>>

(***************************************************************************)
(* resume(): the throttle of the tail, with the three probes reduced to    *)
(* the work w they report and dt, the time the clock has advanced since    *)
(* the tail of the previous resume().                                      *)
(***************************************************************************)
Min(a, b) == IF a < b THEN a ELSE b
Max(a, b) == IF a > b THEN a ELSE b

\* longest time the clock variables tell apart
ClockCap == CMD_MAX_INTERVAL_MS + 1

\* a clock reading c after dt more ms
Advance(c, dt) == Min(c + dt, ClockCap)

\* DP_LIMIT.min(backoff * 2)
Doubled(b) == Min(DP_LIMIT, b * 2)

\* a faulty halving that lets backoff reach 0
HalvedToZero(b) == b \div 2

\* std::cmp::max(1, backoff / 2)
Halved(b) == Max(1, b \div 2)

\* `if work > 0 { self.backoff = DP_LIMIT.min(self.backoff * 2) }`
AfterWork(b, w) == IF w > 0 THEN Doubled(b) ELSE b

\* a faulty test of the clock that lets a sweep run at CMD_MAX_INTERVAL_MS
ExpiredAtInterval(e) == e >= CMD_MAX_INTERVAL_MS

\* last_cmd_ts.elapsed() > Duration::from_millis(CMD_MAX_INTERVAL_MS)
Expired(e) == e > CMD_MAX_INTERVAL_MS

\* the clocks of the ghost record of sweeps after dt more ms
Tick(dt) ==
    since_sweep' = IF since_sweep < 0 THEN since_sweep ELSE Advance(since_sweep, dt)

\* what all Throttle actions leave alone: with no listener bound,
\* check_incoming_connection changes nothing
ThrottleFrame ==
    /\ pc = "check_input_queue"
    /\ ReturnContinue
    /\ UNCHANGED <<probe_disc, cmid_table, prepared, local_buffer, held, comps,
                   panic_msg, rx_outputs, cmd_tx>>
    /\ UNCHANGED envVars
    /\ UNCHANGED ctlVars
    /\ UNCHANGED <<poolVars, sideVars>>

\* dp_spin_cnt stays below backoff: `return Ok(EngineStatus::Continue)`
ThrottleSpin(w, dt) ==
    /\ ThrottleFrame
    /\ dp_spin_cnt + 1 < AfterWork(backoff, w)
    /\ backoff' = AfterWork(backoff, w)
    /\ dp_spin_cnt' = dp_spin_cnt + 1
    /\ elapsed' = Advance(elapsed, dt)
    /\ swept' = FALSE
    /\ Tick(dt)
    /\ UNCHANGED sweep_gap

\* dp_spin_cnt reaches backoff and last_cmd_ts is old enough: backoff is
\* halved and check_incoming_connection runs
ThrottleSweep(w, dt) ==
    /\ ThrottleFrame
    /\ ~(dp_spin_cnt + 1 < AfterWork(backoff, w))
    /\ Expired(Advance(elapsed, dt))
    /\ dp_spin_cnt' = 0
    /\ elapsed' = 0
    /\ backoff' = Halved(AfterWork(backoff, w))
    /\ swept' = TRUE
    /\ sweep_gap' = IF since_sweep < 0 THEN sweep_gap ELSE Advance(since_sweep, dt)
    /\ since_sweep' = 0

\* a faulty else branch that leaves backoff as it was after `if work > 0`
ThrottleRelaxKeep(w, dt) ==
    /\ ThrottleFrame
    /\ ~(dp_spin_cnt + 1 < AfterWork(backoff, w))
    /\ ~Expired(Advance(elapsed, dt))
    /\ dp_spin_cnt' = 0
    /\ elapsed' = Advance(elapsed, dt)
    /\ backoff' = AfterWork(backoff, w)
    /\ swept' = FALSE
    /\ Tick(dt)
    /\ UNCHANGED sweep_gap

\* dp_spin_cnt reaches backoff and last_cmd_ts is recent: backoff is doubled
\* and check_incoming_connection does not run
ThrottleRelax(w, dt) ==
    /\ ThrottleFrame
    /\ ~(dp_spin_cnt + 1 < AfterWork(backoff, w))
    /\ ~Expired(Advance(elapsed, dt))
    /\ dp_spin_cnt' = 0
    /\ elapsed' = Advance(elapsed, dt)
    /\ backoff' = Doubled(AfterWork(backoff, w))
    /\ swept' = FALSE
    /\ Tick(dt)
    /\ UNCHANGED sweep_gap

(***************************************************************************)
(* Specifications.                                                         *)
(***************************************************************************)
Resume ==
    \/ CheckInputQueue
    \/ CheckTransportService
    \/ HandleWc
    \/ CheckInputCmdQueue
    \/ TailReturn
    \/ CheckIncomingConnection

Transport ==
    \/ \E h \in Handles, sg \in 1..MaxPeerSg, f \in FuncIds : PeerConsume(h, sg, f)
    \/ \E h \in Handles, sg \in 1..MaxPeerSg, f \in FuncIds : PeerRequest(h, sg, f)
    \/ \E h \in Handles : NicDeliver(h)

\* The datapath of a client: the application sends on established
\* connections and keeps both channels open; the peers answer every request
\* with a response for the function the engine knows, and originate nothing.
\* (resume() drops the Disconnected of a probe, so the engine treats a closed
\* channel as an empty one.)
Next ==
    \/ TxPost
    \/ \E m \in AppMsgs : TxRecvMsg(m)
    \/ TxRecvEmpty
    \/ CheckTransportService
    \/ HandleWc
    \/ CmdEmpty
    \/ TailReturn
    \/ \E h \in Handles, sg \in 1..MaxPeerSg : PeerConsume(h, sg, 0)
    \/ \E h \in Handles : NicDeliver(h)

\* the datapath of an engine with MaxConns established connections
Spec == InitConnected /\ [][Next]_vars

\* a step of resume() on the datapath
ResumeStep ==
    \/ TxPost
    \/ \E m \in AppMsgs : TxRecvMsg(m)
    \/ TxRecvEmpty
    \/ CheckTransportService
    \/ HandleWc
    \/ CmdEmpty
    \/ TailReturn

\* the datapath with peers that answer in one segment
NextFair ==
    \/ ResumeStep
    \/ \E h \in Handles : PeerConsume(h, 1, 0)
    \/ \E h \in Handles : NicDeliver(h)

\* The datapath with the runtime invoking resume() again and again: a
\* resume() that can take a step does take it.  Nothing is assumed of the
\* peers and of the transport: they may answer late or never.
SpecFair == InitConnected /\ [][NextFair]_vars /\ WF_vars(ResumeStep)

\* the application's plain requests: 2 segments, all in registered MRs
PlainMsgs ==
    {[conn_id |-> h, msg_type |-> "Request", sg_len |-> 2, bad |-> 0] : h \in Handles}

\* The dispatch of inbound messages: the application sends plain requests;
\* the peers answer them and originate requests of their own, in one
\* segment, for functions the engine knows or does not know.
NextDispatch ==
    \/ TxPost
    \/ \E m \in PlainMsgs : TxRecvMsg(m)
    \/ TxRecvEmpty
    \/ CheckTransportService
    \/ HandleWc
    \/ CmdEmpty
    \/ TailReturn
    \/ \E h \in Handles, f \in FuncIds : PeerConsume(h, 1, f)
    \/ \E h \in Handles, f \in FuncIds : PeerRequest(h, 1, f)
    \/ \E h \in Handles : NicDeliver(h)

SpecDispatch == InitConnected /\ [][NextDispatch]_vars

\* The channels: the application sends, also to handles in no table, and
\* drops its ends of the channels at any time; the peers are silent, so
\* every poll of the completion queue is empty.
NextChannels ==
    \/ TxConnMiss
    \/ TxPost
    \/ \E m \in AppMsgs \cup StrayMsgs : TxRecvMsg(m)
    \/ TxRecvEmpty
    \/ TxRecvDisconnected
    \/ CheckTransportService
    \/ CmdEmpty
    \/ CmdDisconnected
    \/ TailReturn

SpecChannels == InitConnected /\ [][NextChannels]_vars

NextControl == Resume \/ Transport \/ (\E l \in Listeners : PeerConnect(l))

\* the engine from its construction, control path included
SpecControl == Init /\ [][NextControl]_vars

\* work the three probes report to the tail, and steps of the clock
Works == {0, 1}
Delays == {0, 1000, 1001}
\* backoff of the engine when the first resume() runs
InitBackoffs == {1, DP_LIMIT}

InitBackoff ==
    /\ InitEngine
    /\ backoff \in InitBackoffs
    /\ dp_spin_cnt = 0
    /\ elapsed = 0
    /\ swept = FALSE
    /\ since_sweep = -1
    /\ sweep_gap = -1
    /\ InitPoolNew
    /\ InitSide

NextBackoff ==
    \/ \E w \in Works, dt \in Delays : ThrottleSpin(w, dt)
    \/ \E w \in Works, dt \in Delays : ThrottleSweep(w, dt)
    \/ \E w \in Works, dt \in Delays : ThrottleRelax(w, dt)

\* the throttle of resume(), for every pattern of work and of time
SpecBackoff == InitBackoff /\ [][NextBackoff]_vars

\* The control path: the application binds, connects and maps, the peers
\* ask the listeners for connections; no message is sent, so the TX probe
\* and the poll find nothing.
NextCommands ==
    \/ TxRecvEmpty
    \/ CheckTransportService
    \/ CmdEmpty
    \/ CmdConnect
    \/ \E l \in Listeners : CmdBind(l)
    \/ \E ws \in (SUBSET MappedMrs) \ {{}} : CmdNewMappedAddrs(ws)
    \/ \E e \in Sentinels : CmdSentinel(e)
    \/ TailReturn
    \/ SweepNoListener
    \/ SweepNoRequest
    \/ SweepAccept
    \/ \E l \in Listeners : PeerConnect(l)

SpecCommands == Init /\ [][NextCommands]_vars

(***************************************************************************)
(* The calls of the pool, step by step.                                     *)
(***************************************************************************)
PoolFrame == UNCHANGED <<engineVars, envVars, throttleVars, ctlVars, sideVars>>

\* thread t calls BufferPool::obtain
ObtainCall(t) ==
    /\ pool_pc[t] = "idle"
    /\ Len(owned[t]) < MaxOwned
    /\ pool_pc' = [pool_pc EXCEPT ![t] = "obtain"]
    /\ ret' = [ret EXCEPT ![t] = NoBuffer]
    /\ grown' = [grown EXCEPT ![t] = 0]
    /\ UNCHANGED <<slabs, slabs_lock, owned, releasing, resident>>
    /\ PoolFrame

\* obtain: self.slabs.lock() of the `for`, held until the loop is left
ObtainLock(t) ==
    /\ pool_pc[t] = "obtain"
    /\ slabs_lock = 0
    /\ slabs_lock' = t
    /\ pool_pc' = [pool_pc EXCEPT ![t] = "obtain_scan"]
    /\ UNCHANGED <<slabs, owned, releasing, ret, grown, resident>>
    /\ PoolFrame

\* a faulty obtain that still holds the lock of the slab vector when its
\* loop has found nothing and it goes on to replenish
ObtainScanKeepsLock(t) ==
    /\ pool_pc[t] = "obtain_scan"
    /\ slabs_lock = t
    /\ LET s == FirstFit(slabs)
       IN IF s # 0
          THEN LET i == FirstUnused(slabs[s])
               IN /\ slabs' = [slabs EXCEPT ![s] = Set(@, i)]
                  /\ owned' = [owned EXCEPT ![t] = Append(@, RecvBuffer(s, i))]
                  /\ ret' = [ret EXCEPT ![t] = RecvBuffer(s, i)]
                  /\ pool_pc' = [pool_pc EXCEPT ![t] = "idle"]
                  /\ slabs_lock' = 0
          ELSE /\ pool_pc' = [pool_pc EXCEPT ![t] = "obtain_grow"]
               /\ UNCHANGED <<slabs, slabs_lock, owned, ret>>
    /\ UNCHANGED <<releasing, grown, resident>>
    /\ PoolFrame

\* obtain: the loop over the slabs.  The first slab with an unused buffer
\* hands out its lowest one (BufferSlab::obtain) and obtain returns it;
\* with no such slab the loop ends.  Either way the lock is dropped.
ObtainScan(t) ==
    /\ pool_pc[t] = "obtain_scan"
    /\ slabs_lock = t
    /\ slabs_lock' = 0
    /\ LET s == FirstFit(slabs)
       IN IF s # 0
          THEN LET i == FirstUnused(slabs[s])
               IN /\ slabs' = [slabs EXCEPT ![s] = Set(@, i)]
                  /\ owned' = [owned EXCEPT ![t] = Append(@, RecvBuffer(s, i))]
                  /\ ret' = [ret EXCEPT ![t] = RecvBuffer(s, i)]
                  /\ pool_pc' = [pool_pc EXCEPT ![t] = "idle"]
          ELSE /\ pool_pc' = [pool_pc EXCEPT ![t] = "obtain_grow"]
               /\ UNCHANGED <<slabs, owned, ret>>
    /\ UNCHANGED <<releasing, grown, resident>>
    /\ PoolFrame

\* a faulty obtain that calls itself without a new slab
ReplenishSkipped(t) ==
    /\ pool_pc[t] = "obtain_grow"
    /\ pool_pc' = [pool_pc EXCEPT ![t] = "obtain"]
    /\ UNCHANGED <<slabs, slabs_lock, owned, releasing, ret, grown, resident>>
    /\ PoolFrame

\* obtain: self.replenish(BufferSlab::new(128, ..).unwrap()) pushes a slab
\* under the lock of the slab vector; then obtain calls itself
ObtainReplenish(t) ==
    /\ pool_pc[t] = "obtain_grow"
    /\ slabs_lock = 0
    /\ slabs' = Append(slabs, NewBitmap)
    /\ grown' = [grown EXCEPT ![t] = @ + 1]
    /\ pool_pc' = [pool_pc EXCEPT ![t] = "obtain"]
    /\ UNCHANGED <<slabs_lock, owned, releasing, ret, resident>>
    /\ PoolFrame

\* thread t calls BufferPool::release with the k-th buffer it holds; the
\* RecvBuffer moves into the call
ReleaseCall(t, k) ==
    /\ pool_pc[t] = "idle"
    /\ k \in 1..Len(owned[t])
    /\ releasing' = [releasing EXCEPT ![t] = owned[t][k]]
    /\ owned' = [owned EXCEPT ![t] =
                    SubSeq(@, 1, k - 1) \o SubSeq(@, k + 1, Len(@))]
    /\ ret' = [ret EXCEPT ![t] = NoBuffer]
    /\ pool_pc' = [pool_pc EXCEPT ![t] = "release"]
    /\ UNCHANGED <<slabs, slabs_lock, grown, resident>>
    /\ PoolFrame

\* release: self.slabs.lock() of the `for`
ReleaseLock(t) ==
    /\ pool_pc[t] = "release"
    /\ slabs_lock = 0
    /\ slabs_lock' = t
    /\ pool_pc' = [pool_pc EXCEPT ![t] = "release_scan"]
    /\ UNCHANGED <<slabs, owned, releasing, ret, grown, resident>>
    /\ PoolFrame

\* release: the slab whose storage is the buffer's clears the bit of the
\* buffer (BufferSlab::release); the lock is dropped
ReleaseScan(t) ==
    /\ pool_pc[t] = "release_scan"
    /\ slabs_lock = t
    /\ slabs_lock' = 0
    /\ slabs' = [slabs EXCEPT ![releasing[t].slab] = Clear(@, releasing[t].idx)]
    /\ releasing' = [releasing EXCEPT ![t] = NoBuffer]
    /\ pool_pc' = [pool_pc EXCEPT ![t] = "idle"]
    /\ UNCHANGED <<owned, ret, grown, resident>>
    /\ PoolFrame

\* a step of thread t inside a call of the pool
PoolStep(t) ==
    \/ ObtainLock(t)
    \/ ObtainScan(t)
    \/ ObtainReplenish(t)
    \/ ReleaseLock(t)
    \/ ReleaseScan(t)

NextPool ==
    \/ \E t \in PoolThreads : ObtainCall(t)
    \/ \E t \in PoolThreads : ObtainLock(t)
    \/ \E t \in PoolThreads : ObtainScan(t)
    \/ \E t \in PoolThreads : ObtainReplenish(t)
    \/ \E t \in PoolThreads, k \in 1..MaxOwned : ReleaseCall(t, k)
    \/ \E t \in PoolThreads : ReleaseLock(t)
    \/ \E t \in PoolThreads : ReleaseScan(t)

InitPool == InitEngine /\ InitThrottle /\ InitPoolUsed /\ InitSide

\* the pool used by MaxThreads threads
SpecPool == InitPool /\ [][NextPool]_vars

\* The same with threads that run: a thread inside a call takes its next
\* step, and a thread spinning on the lock gets it when the lock is
\* released again and again.
SpecPoolFair ==
    InitPool /\ [][NextPool]_vars /\ \A t \in PoolThreads : SF_vars(PoolStep(t))

\* thread t calls BufferPool::obtain once more, having released nothing
ObtainAgain(t) ==
    /\ pool_pc[t] = "idle"
    /\ Len(owned[t]) < MaxObtains
    /\ pool_pc' = [pool_pc EXCEPT ![t] = "obtain"]
    /\ ret' = [ret EXCEPT ![t] = NoBuffer]
    /\ grown' = [grown EXCEPT ![t] = 0]
    /\ UNCHANGED <<slabs, slabs_lock, owned, releasing, resident>>
    /\ PoolFrame

NextGrowth ==
    \/ ObtainAgain(1)
    \/ ObtainLock(1)
    \/ ObtainScan(1)
    \/ ObtainReplenish(1)

\* consecutive obtain calls of one thread on a new pool, with no release
SpecGrowth == Init /\ [][NextGrowth]_vars

\* as_handle is called on the two buffers
AsHandleCall ==
    /\ handles = <<NoHandle, NoHandle>>
    /\ handles' = <<AsHandle(hbufs[1]), AsHandle(hbufs[2])>>
    /\ UNCHANGED <<engineVars, envVars, throttleVars, ctlVars, poolVars>>
    /\ UNCHANGED <<faults, setup, hbufs, duo>>

InitHandles ==
    /\ InitEngine
    /\ InitThrottle
    /\ InitPoolNew
    /\ faults = 0
    /\ setup = NoSetup
    /\ hbufs \in HandleInputs \X HandleInputs
    /\ duo = DuoStart
    /\ handles = <<NoHandle, NoHandle>>

\* RecvBuffer::as_handle on any two buffers
SpecHandles == InitHandles /\ [][AsHandleCall]_vars

(***************************************************************************)
(* Observations of the state used by the properties below.                 *)
(***************************************************************************)
\* resume() is not running: the state between two calls
BetweenResumes == pc = "check_input_queue"

\* the credit counter of connection h and its queue of outstanding requests
CreditOf(h) == cmid_table[h].credit
OutstandingOf(h) == cmid_table[h].outstanding_req

\* The completion at the head of the polled batch, about to be handled, is a
\* recv with WITH_IMM on connection h: it completes a message there.
Completing(h) ==
    /\ pc = "handle_wc"
    /\ comps # <<>>
    /\ Head(comps).with_imm
    /\ HasWrContext(Head(comps).wr_id)
    /\ WrContextOf(Head(comps).wr_id).conn_id = h
    /\ h \in DOMAIN cmid_table

\* the header of the message being completed on h: its first segment is the
\* first entry of receiving_sgl, or the completion itself when that is empty
CompletingHeader(h) ==
    IF cmid_table[h].receiving_sgl = <<>>
    THEN Head(comps).data.msg
    ELSE cmid_table[h].receiving_sgl[1].data.msg

\* a response is about to be completed on connection h
ResponseCompleting(h) == Completing(h) /\ CompletingHeader(h).msg_type = "Response"

\* the application message i has been posted in full on some connection
Sent(i) ==
    \E h \in Handles : \E k \in 1..Len(wire[h]) :
        wire[h][k].msg.id = i /\ wire[h][k].imm

\* some send of the application message i has been posted
SomeSendOf(i) ==
    \E h \in Handles : \E k \in 1..Len(wire[h]) : wire[h][k].msg.id = i

(***************************************************************************)
(* C1.  Credit conservation.                                               *)
(***************************************************************************)
\* C1: for every connection, in every state between two resume() calls, the
\* value of the credit counter plus the sum of sg_len over outstanding_req
\* equals the initial credit 128.  (A wrapped counter holds 2^64 + n for the
\* negative representative n, so its value plus the sum is not 128.)
C1_CreditConservation ==
    BetweenResumes =>
        \A h \in DOMAIN cmid_table :
            /\ ~Wrapped(CreditOf(h))
            /\ CreditOf(h) + SumSgLen(OutstandingOf(h)) = INITIAL_CREDIT

(***************************************************************************)
(* C2.  The deduction never wraps the counter.                             *)
(***************************************************************************)
\* C2: whatever requests are sent, the credit counter of a connection never
\* wraps below 0, and the sum of sg_len over its outstanding requests never
\* exceeds the initial credit 128.
C2_CreditNeverWraps ==
    \A h \in DOMAIN cmid_table :
        /\ ~Wrapped(CreditOf(h))
        /\ SumSgLen(OutstandingOf(h)) <= INITIAL_CREDIT

(***************************************************************************)
(* C3.  FIFO response matching.                                            *)
(***************************************************************************)
\* C3: the peers answering each request once and in the order of the
\* requests, whenever a response is about to be completed on a connection,
\* outstanding_req is non-empty there and the call_id of the response equals
\* the call_id of the entry at its head: the unwrap and the assertion on
\* call_id never fail.
C3_FifoResponseMatching ==
    /\ panic_msg \notin {"unwrap_none", "assert_call_id"}
    /\ \A h \in DOMAIN cmid_table :
          ResponseCompleting(h) =>
              /\ OutstandingOf(h) # <<>>
              /\ Head(OutstandingOf(h)).call_id = CompletingHeader(h).call_id

(***************************************************************************)
(* C4.  Replenishment: once per response, by the request's sg_len.         *)
(***************************************************************************)
\* C4: a step that completes a response on a connection (and does not
\* panic) pops the head of outstanding_req and adds exactly the sg_len
\* recorded in it to the credit; no other step raises the credit of a
\* connection.
C4_ReplenishOncePerResponse ==
    [][\A h \in DOMAIN cmid_table :
          IF ResponseCompleting(h) /\ pc' # "panicked"
          THEN /\ OutstandingOf(h) # <<>>
               /\ cmid_table'[h].credit = CreditOf(h) + Head(OutstandingOf(h)).sg_len
               /\ cmid_table'[h].outstanding_req = Tail(OutstandingOf(h))
          ELSE cmid_table'[h].credit <= CreditOf(h)]_vars

\* A request of 2 segments was sent from credit 128 (leaving 126) and its
\* 1-segment response has been delivered: the credit is 128 again and no
\* request is outstanding.
C4_Witness ==
    \E h \in DOMAIN cmid_table :
        /\ CreditOf(h) = INITIAL_CREDIT
        /\ OutstandingOf(h) = <<>>
        /\ Len(wire[h]) = 2
        /\ wire[h][1].msg.msg_type = "Request"
        /\ wire[h][2].imm
        /\ \E k \in 1..Len(rx_outputs) :
              /\ rx_outputs[k].meta.conn_id = h
              /\ rx_outputs[k].meta.msg_type = "Response"
              /\ rx_outputs[k].meta.call_id = wire[h][1].msg.call_id
              /\ Len(rx_outputs[k].sgl) = 1

(***************************************************************************)
(* C5.  Backpressure.                                                      *)
(***************************************************************************)
\* C5: a send is posted on a connection only in a step that finds its credit
\* above 5; and a TX probe that finds the head of the local FIFO bound for a
\* connection with credit <= 5 leaves that message at the head and posts
\* nothing.
C5_Backpressure ==
    [][/\ \A h \in Handles :
             wire'[h] # wire[h] =>
                 /\ h \in DOMAIN cmid_table
                 /\ ~(CreditOf(h) \in 0..LOW_WATER)
       /\ \A h \in DOMAIN cmid_table :
             (/\ pc = "check_input_queue"
              /\ local_buffer # <<>>
              /\ Head(local_buffer).conn_id = h
              /\ CreditOf(h) \in 0..LOW_WATER)
             => /\ local_buffer' # <<>>
                /\ Head(local_buffer') = Head(local_buffer)
                /\ wire' = wire]_vars

\* A request took the credit of its connection to 3; the next message for
\* that connection has been put back at the head and nothing of it is sent.
C5_Witness ==
    /\ BetweenResumes
    /\ local_buffer # <<>>
    /\ Head(local_buffer).id \in held
    /\ Head(local_buffer).conn_id \in DOMAIN cmid_table
    /\ CreditOf(Head(local_buffer).conn_id) = 3
    /\ ~SomeSendOf(Head(local_buffer).id)

(***************************************************************************)
(* C6.  Liveness of backpressure.                                          *)
(***************************************************************************)
\* the message i, put back for low credit before, is at the head of the
\* local FIFO and the credit of its connection is above 5 again
HeldAndRestored(i) ==
    /\ local_buffer # <<>>
    /\ Head(local_buffer).id = i
    /\ i \in held
    /\ Head(local_buffer).conn_id \in DOMAIN cmid_table
    /\ ~(CreditOf(Head(local_buffer).conn_id) \in 0..LOW_WATER)

\* every segment of the message at the head of the local FIFO lies in a
\* registered MR
HeadRegistered == local_buffer # <<>> /\ Head(local_buffer).bad = 0

C7_DisconnectedReturned ==
    (BetweenResumes /\ probe_disc) => status = "Disconnected"

(***************************************************************************)
(* C8.  Message framing on send.                                           *)
(***************************************************************************)
\* C8: on every connection the sends of a message of K segments are K
\* contiguous sends in segment order, the last one, and only the last one,
\* with immediate: each send for segment j < K is followed at once by the
\* send for segment j + 1 of the same message, each send for a segment j > 1
\* follows that for segment j - 1, and a send carries the immediate iff it is
\* for segment K.
C8_SendFraming ==
    \A h \in Handles : \A k \in 1..Len(wire[h]) :
        LET s == wire[h][k]
        IN /\ s.imm <=> (s.idx = s.msg.sg_len)
           /\ s.idx < s.msg.sg_len =>
                 /\ k < Len(wire[h])
                 /\ wire[h][k + 1].msg = s.msg
                 /\ wire[h][k + 1].idx = s.idx + 1
           /\ s.idx > 1 =>
                 /\ k > 1
                 /\ wire[h][k - 1].msg = s.msg
                 /\ wire[h][k - 1].idx = s.idx - 1

(***************************************************************************)
(* C9.  Receive assembly.                                                  *)
(***************************************************************************)
\* the SgList sgl, received on connection h, is made of the first n segments
\* of one message sent by the peer of h, in order, each in an MR of h
SegmentsOfOne(sgl, h, n) ==
    /\ Len(sgl) = n
    /\ \A j \in 1..Len(sgl) :
          /\ sgl[j].data.msg = sgl[1].data.msg
          /\ sgl[j].data.idx = j
          /\ sgl[j].data.msg.conn_id = h + MaxConns
          /\ ConnOfMr(sgl[j].ptr) = h

\* C9: every SgList delivered upward for a connection consists of exactly
\* the segments of one message of that connection's peer, all of them, in
\* arrival order, whatever completions of other connections were
\* interleaved; and what receiving_sgl holds is the segments received since
\* the last delivery: a proper prefix of one message (empty right after a
\* delivery).
C9_ReceiveAssembly ==
    /\ \A k \in 1..Len(rx_outputs) :
          /\ rx_outputs[k].sgl # <<>>
          /\ SegmentsOfOne(rx_outputs[k].sgl, rx_outputs[k].meta.conn_id,
                           rx_outputs[k].sgl[1].data.msg.sg_len)
    /\ \A h \in DOMAIN cmid_table :
          LET sgl == cmid_table[h].receiving_sgl
          IN /\ SegmentsOfOne(sgl, h, Len(sgl))
             /\ sgl # <<>> => Len(sgl) < sgl[1].data.msg.sg_len

\* A message of 2 segments has just been delivered for one connection
\* (whose receiving_sgl is empty again) while another connection is in the
\* middle of assembling a message of its own: their completions were
\* interleaved in the completion queue.
C9_Witness ==
    /\ rx_outputs # <<>>
    /\ \E h \in DOMAIN cmid_table, g \in DOMAIN cmid_table :
          /\ g # h
          /\ rx_outputs[Len(rx_outputs)].meta.conn_id = h
          /\ Len(rx_outputs[Len(rx_outputs)].sgl) = 2
          /\ cmid_table[h].receiving_sgl = <<>>
          /\ cmid_table[g].receiving_sgl # <<>>

(***************************************************************************)
(* C10.  Per-connection send order.                                        *)
(***************************************************************************)
\* C10: messages get their ids in the order they are taken from the TX
\* channel; on every connection no send of a message is posted after a send
\* of a message taken from the channel later: along the sends of a
\* connection, in post order, the ids never decrease.
C10_SendOrder ==
    \A h \in Handles : \A k \in 1..(Len(wire[h]) - 1) :
        wire[h][k].msg.id <= wire[h][k + 1].msg.id

\* two messages of one connection are on the wire, the earlier of which had
\* been put back for low credit
C10_Witness ==
    \E h \in Handles : \E j \in 1..Len(wire[h]) :
        /\ wire[h][j].msg.id \in held
        /\ wire[h][j].msg.id < wire[h][Len(wire[h])].msg.id

(***************************************************************************)
(* C11.  Receive-buffer reuse.                                             *)
(***************************************************************************)
\* the receive MR with handle w is posted to the transport for receive
IsPosted(w) ==
    /\ ConnOfMr(w) \in prepared
    /\ \/ w - MrHandle(ConnOfMr(w), 0) > recv_taken[ConnOfMr(w)]
       \/ \E k \in 1..Len(reposted[ConnOfMr(w)]) : reposted[ConnOfMr(w)][k] = w

\* C11: the engine takes no ReclaimRecvBuf from the application, so every
\* message delivered to the RX queue is unreleased; no receive MR that holds
\* a segment of a delivered message is posted for receive.
C11_NoRepostBeforeRelease ==
    \A k \in 1..Len(rx_outputs) : \A j \in 1..Len(rx_outputs[k].sgl) :
        ~IsPosted(rx_outputs[k].sgl[j].ptr)

(***************************************************************************)
(* C12.  Unknown func_id.                                                  *)
(***************************************************************************)
\* C12: a step that panics on an unknown func_id has changed nothing: the
\* credit and the outstanding requests of every connection are as they were
\* before the completion was handled, and nothing was pushed to the RX queue.
C12_UnknownFuncNoMutation ==
    [][(pc' = "panicked" /\ panic_msg' = "unknown_func_id") =>
          /\ rx_outputs' = rx_outputs
          /\ \A h \in DOMAIN cmid_table :
                /\ cmid_table'[h].credit = CreditOf(h)
                /\ cmid_table'[h].outstanding_req = OutstandingOf(h)]_vars


\* C13: the throttle stays in bounds: whatever work the probes report and
\* whatever time passes, between two resume() calls backoff lies in
\* 1..DP_LIMIT and dp_spin_cnt is below backoff.
C13_BackoffBounds ==
    /\ backoff \in 1..DP_LIMIT
    /\ dp_spin_cnt \in 0..(backoff - 1)

\* backoff is back at its ceiling and resume() spins, after two sweeps have
\* halved it
C13_Witness ==
    /\ backoff = DP_LIMIT
    /\ dp_spin_cnt > 0
    /\ sweep_gap > 0

\* C14: connection sweeps are rate limited: more than CMD_MAX_INTERVAL_MS
\* passes between any two executions of check_incoming_connection.
C14_SweepRateLimit == sweep_gap < 0 \/ sweep_gap > CMD_MAX_INTERVAL_MS

\* check_incoming_connection has run twice, and is now held back because
\* exactly CMD_MAX_INTERVAL_MS has passed since
C14_Witness ==
    /\ sweep_gap > CMD_MAX_INTERVAL_MS
    /\ since_sweep = CMD_MAX_INTERVAL_MS
    /\ dp_spin_cnt = 0


\* the last element of a non-empty sequence
Last(s) == s[Len(s)]

\* a command was taken from cmd_rx by this step
CommandTaken == Len(cmd_log') > Len(cmd_log)

\* this step appends exactly one completion to the completion channel
OneCompletionSent ==
    /\ Len(cmd_tx') = Len(cmd_tx) + 1
    /\ SubSeq(cmd_tx', 1, Len(cmd_tx)) = cmd_tx

\* C15: command completions: a command is taken only by the command probe,
\* once per resume() (the probe hands over to the tail, and the tail ends
\* resume()); the step that takes a command sends exactly one completion
\* for it, Err iff its handler failed, unless the handler returned the
\* sentinel InProgress or NoResponse, and then it sends none.
C15_OneCommandOneCompletion ==
    [][/\ CommandTaken =>
            /\ pc = "check_input_cmd_queue"
            /\ pc' = "throttle"
            /\ Len(cmd_log') = Len(cmd_log) + 1
            /\ IF Last(cmd_log').result \in Sentinels
               THEN cmd_tx' = cmd_tx
               ELSE /\ OneCompletionSent
                    /\ (Last(cmd_tx').kind = "Err") <=> (Last(cmd_log').result = "Err")
       /\ pc = "throttle" => /\ pc' \in {"throttle", "check_input_queue"}
                             /\ ~CommandTaken]_vars

\* three commands were taken: one handled with success, one that failed and
\* one deferred; two completions were sent
C15_Witness ==
    /\ Len(cmd_log) = 3
    /\ {cmd_log[k].result : k \in 1..3} = {"Ok", "Err", "InProgress"}
    /\ Len(cmd_tx) = 2

\* C16: control-plane errors: the step in which a handler fails sends a
\* Completion(Err) and the command probe reports Progress(1) to resume(),
\* which goes on to its tail without an error or a panic; that resume()
\* returns Continue (unless the sweep of its tail accepts a connection and
\* the transport fails there).
C16_HandlerErrorCompletes ==
    [][/\ (CommandTaken /\ Last(cmd_log').result = "Err") =>
            /\ OneCompletionSent
            /\ Last(cmd_tx').kind = "Err"
            /\ pc' = "throttle"
            /\ work' = work + 1
            /\ status' = status
            /\ panic_msg' = "none"
       /\ (pc = "throttle" /\ pc' = "check_input_queue" /\ next_conn' = next_conn) =>
            status' = "Continue"]_vars

\* a NewMappedAddrs naming an MR in no table failed, the resume() returned
\* Continue, and the next command was handled with success
C16_Witness ==
    /\ status = "Continue"
    /\ \E k \in 1..(Len(cmd_log) - 1) :
          /\ cmd_log[k] = [cmd |-> "NewMappedAddrs", result |-> "Err"]
          /\ cmd_log[k + 1].result = "Ok"

\* C17: a successful Connect registers the new cmid with credit
\* INITIAL_CREDIT and no outstanding request, has all RECV_DEPTH receive MRs
\* in the recv-MR table (the MRs of the cmids in cmid_table) and a WrContext
\* of this connection for each of their wr_ids (the cmid is in `prepared`),
\* and completes with ConnectInternal(handle, RECV_DEPTH MR
\* descriptors, RECV_DEPTH fds).
C17_ConnectRegisters ==
    [][(CommandTaken /\ Last(cmd_log') = [cmd |-> "Connect", result |-> "Ok"]) =>
          LET c == Last(cmd_tx')
              h == c.handle
          IN /\ OneCompletionSent
             /\ c = [kind |-> "ConnectInternal", handle |-> h,
                     mrs |-> RECV_DEPTH, fds |-> RECV_DEPTH]
             /\ h \notin DOMAIN cmid_table
             /\ h \in DOMAIN cmid_table'
             /\ cmid_table'[h].credit = INITIAL_CREDIT
             /\ cmid_table'[h].outstanding_req = <<>>
             /\ \A w \in RecvMrs(h) :
                   /\ ConnOfMr(w) \in DOMAIN cmid_table'
                   /\ ConnOfMr(w) \in prepared'
                   /\ WrContextOf(w).conn_id = h]_vars

\* a Connect has just succeeded after an earlier one had failed
C17_Witness ==
    /\ pc = "throttle"
    /\ Len(cmd_log) = 2
    /\ cmd_log[1] = [cmd |-> "Connect", result |-> "Err"]
    /\ cmd_log[2] = [cmd |-> "Connect", result |-> "Ok"]
    /\ Last(cmd_tx).kind = "ConnectInternal"
    /\ Last(cmd_tx).handle \in DOMAIN cmid_table

\* C18: listener accept: a sweep that runs while a connection request is
\* pending on a bound listener (and meets no failure of the transport)
\* accepts one, registers it with credit INITIAL_CREDIT and its RECV_DEPTH
\* receive MRs, and emits exactly one NewConnectionInternal(handle,
\* RECV_DEPTH MR descriptors, RECV_DEPTH fds).
C18_ListenerAccept ==
    [][(/\ pc = "throttle"
        /\ pc' = "check_input_queue"
        /\ swept'
        /\ status' = "Continue"
        /\ \E l \in listener_table : pending[l] > 0) =>
          LET c == Last(cmd_tx')
              h == c.handle
          IN /\ OneCompletionSent
             /\ c = [kind |-> "NewConnectionInternal", handle |-> h,
                     mrs |-> RECV_DEPTH, fds |-> RECV_DEPTH]
             /\ h \in DOMAIN cmid_table'
             /\ cmid_table'[h].credit = INITIAL_CREDIT
             /\ \A w \in RecvMrs(h) : ConnOfMr(w) \in DOMAIN cmid_table']_vars


\* thread t is inside a call of BufferPool::obtain
InObtain(t) == pool_pc[t] \in {"obtain", "obtain_scan", "obtain_grow"}

\* the obtain call of thread t has returned a buffer, which t now holds
Returned(t) ==
    /\ pool_pc[t] = "idle"
    /\ ret[t] # NoBuffer
    /\ owned[t] # <<>>
    /\ ret[t] = Last(owned[t])

C20_ExclusiveBuffers ==
    /\ \A t \in PoolThreads : \A k1, k2 \in 1..Len(owned[t]) :
          k1 # k2 => owned[t][k1] # owned[t][k2]
    /\ \A t1, t2 \in PoolThreads : t1 # t2 =>
          /\ \A k1 \in 1..Len(owned[t1]), k2 \in 1..Len(owned[t2]) :
                owned[t1][k1] # owned[t2][k2]
          /\ releasing[t1] # NoBuffer => releasing[t1] # releasing[t2]
    /\ \A t \in PoolThreads : \A k \in 1..Len(owned[t]) :
          /\ owned[t][k] \notin resident
          /\ \A u \in PoolThreads : owned[t][k] # releasing[u]
    /\ \A t \in PoolThreads : releasing[t] \notin resident

\* two threads hold two buffers each, of the same slab, one of them a buffer
\* that the other thread held and released before
C20_Witness ==
    /\ Len(owned[1]) = 2
    /\ Len(owned[2]) = 2
    /\ owned[1][1].slab = owned[2][1].slab
    /\ owned[1][2].idx < owned[2][1].idx
    /\ owned[2][1].idx < owned[1][1].idx


\* C21: slab growth: after n consecutive obtain calls on a new pool, with no
\* release, the n buffers returned are pairwise distinct, the pool has
\* ceil(n / SLAB_BUFFERS) slabs, and the n-th call has added a slab (one
\* slab) exactly when n is 1, SLAB_BUFFERS + 1, 2 * SLAB_BUFFERS + 1, ...
C21_SlabGrowth ==
    pool_pc[1] = "idle" =>
        LET n == Len(owned[1])
        IN /\ Cardinality({owned[1][k] : k \in 1..n}) = n
           /\ Len(slabs) = (n + SLAB_BUFFERS - 1) \div SLAB_BUFFERS
           /\ n > 0 => grown[1] = IF (n - 1) % SLAB_BUFFERS = 0 THEN 1 ELSE 0

\* the 257th call has returned, having added the third slab
C21_Witness ==
    /\ pool_pc[1] = "idle"
    /\ Len(owned[1]) = 2 * SLAB_BUFFERS + 1
    /\ Len(slabs) = 3
    /\ grown[1] = 1
    /\ ret[1] = RecvBuffer(3, 0)


\* the (slab storage handle, buffer index) of a RecvBuffer
SlabAndIndex(buf) == <<buf.storage, buf.offset \div buf.len>>

\* C22: handle uniqueness: as_handle fails an assertion exactly when the
\* storage handle or the buffer index is 2^16 or more, and otherwise two
\* buffers that differ in slab or in index get different handles.
C22_HandleInjective ==
    handles # <<NoHandle, NoHandle>> =>
        /\ \A k \in 1..2 :
              /\ handles[k].res = "assert_high" <=> hbufs[k].storage >= HALF
              /\ handles[k].res = "assert_low" <=>
                    (hbufs[k].storage < HALF /\ SlabAndIndex(hbufs[k])[2] >= HALF)
        /\ (/\ handles[1].res = "handle"
            /\ handles[2].res = "handle"
            /\ SlabAndIndex(hbufs[1]) # SlabAndIndex(hbufs[2])) =>
                 handles[1] # handles[2]

\* two buffers at the upper ends of the two ranges: same slab 2^16 - 1,
\* indices 2^16 - 1 and 127, different handles
C22_Witness ==
    /\ handles[1] = [res |-> "handle", high |-> HALF - 1, low |-> HALF - 1]
    /\ handles[2] = [res |-> "handle", high |-> HALF - 1, low |-> 127]
    /\ hbufs[2].len = 8388608


RECURSIVE SetBits(_)
\* the number of bits set over the bitmaps of the slabs sl
SetBits(sl) == IF sl = <<>> THEN 0 ELSE Cardinality(Head(sl)) + SetBits(Tail(sl))

RECURSIVE HeldBy(_)
\* the number of buffers held by the threads of the set ts
HeldBy(ts) ==
    IF ts = {} THEN 0
    ELSE LET t == CHOOSE x \in ts : TRUE
         IN Len(owned[t]) + (IF releasing[t] # NoBuffer THEN 1 ELSE 0) + HeldBy(ts \ {t})

\* the slabs sl with bit (s, i) given the value v, and nothing else changed
WithBit(sl, s, i, v) ==
    [r \in 1..Len(sl) |-> IF r # s THEN sl[r]
                          ELSE IF v THEN sl[r] \cup {i} ELSE sl[r] \ {i}]

\* C23: no leaked bitmap bits: the bits set over all slabs are as many as
\* the buffers obtained and not released; the step of release that clears
\* clears the bit of the buffer released, which was set, and changes
\* nothing else; the step of obtain that hands out a buffer sets its bit,
\* which was clear, and changes nothing else.
C23_NoLeakedBits ==
    /\ [](SetBits(slabs) = HeldBy(PoolThreads) + Cardinality(resident))
    /\ [][\A t \in PoolThreads :
            /\ (pool_pc[t] = "release_scan" /\ pool_pc'[t] = "idle") =>
                  /\ releasing[t].idx \in slabs[releasing[t].slab]
                  /\ slabs' = WithBit(slabs, releasing[t].slab, releasing[t].idx, FALSE)
            /\ (pool_pc[t] = "obtain_scan" /\ pool_pc'[t] = "idle") =>
                  /\ ret'[t].idx \notin slabs[ret'[t].slab]
                  /\ slabs' = WithBit(slabs, ret'[t].slab, ret'[t].idx, TRUE)]_vars

\* a thread found the first slab full, obtained the first buffer of a second
\* slab and released it: the second slab has no bit set again
C23_Witness ==
    /\ Len(slabs) = 2
    /\ Cardinality(slabs[1]) = SLAB_BUFFERS
    /\ slabs[2] = {}
    /\ \A t \in PoolThreads : pool_pc[t] = "idle" /\ owned[t] = <<>>


\* C24: every message in the RX queue carries in meta.conn_id the handle of
\* the local connection its completing receive arrived on (the conn_id of
\* the WrContext of that receive's wr_id, a connection of cmid_table), not
\* the conn_id the sender wrote into the header.
C24_RxConnId ==
    \A k \in 1..Len(rx_outputs) :
        LET out == rx_outputs[k]
            completing == Last(out.sgl)
        IN /\ HasWrContext(completing.ptr)
           /\ out.meta.conn_id = WrContextOf(completing.ptr).conn_id
           /\ out.meta.conn_id \in DOMAIN cmid_table

\* a request of a peer and a response were delivered on different
\* connections, both with a header naming a conn_id that is no local handle
C24_Witness ==
    \E k1, k2 \in 1..Len(rx_outputs) :
        /\ rx_outputs[k1].meta.msg_type = "Request"
        /\ rx_outputs[k2].meta.msg_type = "Response"
        /\ rx_outputs[k1].meta.conn_id # rx_outputs[k2].meta.conn_id
        /\ rx_outputs[k1].sgl[1].data.msg.conn_id \notin DOMAIN cmid_table
        /\ rx_outputs[k2].sgl[1].data.msg.conn_id \notin DOMAIN cmid_table


\* C25: replenishment follows delivery: a step that pops a ReqContext from
\* outstanding_req of a connection, or adds to its credit, has pushed the
\* response it does so for to the RX queue.
C25_DeliverBeforeReplenish ==
    [][\A h \in DOMAIN cmid_table :
          (\/ Len(cmid_table'[h].outstanding_req) < Len(OutstandingOf(h))
           \/ cmid_table'[h].credit > CreditOf(h)) =>
             /\ Len(rx_outputs') = Len(rx_outputs) + 1
             /\ Last(rx_outputs').meta.msg_type = "Response"
             /\ Last(rx_outputs').meta.conn_id = h]_vars


\* the completions of receives of connection h in the queue q
CompletionsOf(h, q) ==
    Cardinality({k \in 1..Len(q) : WrContextOf(q[k].wr_id).conn_id = h})

\* the completion of the polled batch was handled to its end
HandledToEnd == pc' \in {"handle_wc", "check_input_cmd_queue"}

NextCompletions ==
    \/ TxPost
    \/ \E m \in PlainMsgs : TxRecvMsg(m)
    \/ TxRecvEmpty
    \/ CheckTransportService
    \/ HandleWc
    \/ CmdEmpty
    \/ TailReturn
    \/ \E h \in Handles : PeerConsume(h, 1, 0)
    \/ \E h \in Handles : NicDeliver(h)
    \/ \E h \in Handles, st \in WcStatuses : NicSendDone(h, st)
    \/ \E h \in Handles : NicRecvError(h)
    \/ \E op \in OtherOpcodes : NicOther(op)

SpecCompletions == InitConnected /\ [][NextCompletions]_vars

\* C27: handling a completion with error status leaves every connection
\* context (credit, outstanding_req, receiving_sgl), the posted receives, the
\* RX queue and the panic state as they were, and goes on to the next
\* completion of the batch; handling a successful completion whose opcode is
\* neither Send nor Recv panics.
C27_ErrorCompletion ==
    [][pc = "handle_wc" /\ comps # <<>> =>
          LET wc == Head(comps)
          IN /\ wc.status = "Error" =>
                  /\ cmid_table' = cmid_table
                  /\ reposted' = reposted
                  /\ rx_outputs' = rx_outputs
                  /\ panic_msg' = panic_msg
                  /\ comps' = Tail(comps)
                  /\ pc' = IF Tail(comps) = <<>> THEN "check_input_cmd_queue"
                                                 ELSE "handle_wc"
             /\ (wc.status = "Success" /\ wc.opcode \notin {"Send", "Recv"}) =>
                  /\ pc' = "panicked"
                  /\ panic_msg' # "none"]_vars

\* the one failed completion was a receive of a connection, it has been
\* handled (its receive is abandoned), and a successful receive polled in a
\* batch is handled next
C27_Witness ==
    /\ pc = "handle_wc"
    /\ comps # <<>>
    /\ Head(comps).status = "Success" /\ Head(comps).opcode = "Recv"
    /\ faults = 1
    /\ panic_msg = "none"
    /\ \E h \in prepared :
          Len(PostedRecv(h)) + CompletionsOf(h, cq) + CompletionsOf(h, comps)
              = RECV_DEPTH - 1


\* The throttle with backoff kept at or below MaxBackoff: a resume() that
\* would raise backoff above it is not taken.
SpinCapped(w, dt) == ThrottleSpin(w, dt) /\ backoff' <= MaxBackoff
SweepCapped(w, dt) == ThrottleSweep(w, dt) /\ backoff' <= MaxBackoff
RelaxCapped(w, dt) == ThrottleRelax(w, dt) /\ backoff' <= MaxBackoff

InitSweep == InitBackoff /\ backoff = 1

NextSweep ==
    \/ \E w \in Works, dt \in Delays : SpinCapped(w, dt)
    \/ \E w \in Works, dt \in Delays : SweepCapped(w, dt)
    \/ \E w \in Works, dt \in Delays : RelaxCapped(w, dt)

\* the throttle of resume() while backoff is small
SpecSweep == InitSweep /\ [][NextSweep]_vars

\* C28 as stated: in every resume() in which dp_spin_cnt reaches backoff,
\* dp_spin_cnt is reset and the incoming-connection sweep is performed, and
\* backoff is halved (when 1000 ms have elapsed) or left as it was after the
\* work-based doubling.
C28_SweepAtEveryReset ==
    [][dp_spin_cnt' = 0 =>
          \E w \in Works :
              /\ swept'
              /\ backoff' \in {Halved(AfterWork(backoff, w)), AfterWork(backoff, w)}]_vars

\* C28: in every resume() in which dp_spin_cnt reaches backoff, dp_spin_cnt
\* is reset to 0; if more than CMD_MAX_INTERVAL_MS have elapsed since
\* last_cmd_ts, the clock restarts, backoff is halved (minimum 1) and the
\* incoming-connection sweep is performed; otherwise no sweep is performed
\* and backoff is doubled once more (at most DP_LIMIT).  A resume() in which
\* dp_spin_cnt stays below backoff performs no sweep.
C28_SweepTrigger ==
    [][IF dp_spin_cnt' = 0
       THEN \E w \in Works :
               LET b == AfterWork(backoff, w)
               IN /\ dp_spin_cnt + 1 >= b
                  /\ IF swept'
                     THEN /\ backoff' = Halved(b)
                          /\ elapsed' = 0
                          /\ sweep_gap' < 0 \/ Expired(sweep_gap')
                     ELSE /\ backoff' = Doubled(b)
                          /\ ~Expired(elapsed')
                          /\ elapsed' >= elapsed
       ELSE /\ ~swept'
            /\ dp_spin_cnt' = dp_spin_cnt + 1
            /\ dp_spin_cnt' < backoff']_vars

\* dp_spin_cnt has just reached a backoff above 1 and was reset without a
\* sweep, exactly CMD_MAX_INTERVAL_MS after the last sweep
C28_Witness ==
    /\ dp_spin_cnt = 0
    /\ ~swept
    /\ backoff > 2
    /\ since_sweep = CMD_MAX_INTERVAL_MS
    /\ elapsed = CMD_MAX_INTERVAL_MS


\* the message i is queued in the local FIFO behind a head that is held back
\* for low credit; i is bound for another connection, whose credit is above
\* LOW_WATER, and all its segments lie in registered MRs
QueuedBehindBlocked(i) ==
    /\ HeadBlocked
    /\ \E k \in 2..Len(local_buffer) :
          /\ local_buffer[k].id = i
          /\ local_buffer[k].bad = 0
          /\ local_buffer[k].conn_id \in DOMAIN cmid_table
          /\ local_buffer[k].conn_id # Head(local_buffer).conn_id
          /\ CreditOf(local_buffer[k].conn_id) > LOW_WATER

\* C29: resume() being invoked again and again, a message queued behind a
\* credit-blocked head for a different connection whose credit is above 5 is
\* sent, whether or not the credit of the head's connection returns.
C29_OtherConnectionSent ==
    \A i \in 1..MaxMsgs : QueuedBehindBlocked(i) ~> (Sent(i) \/ pc = "panicked")


(***************************************************************************)
(* prepare_recv_buffers, statement by statement.  setup.posted counts the  *)
(* receives posted for the cmid so far and setup.inserted the WrContexts   *)
(* inserted: the i-th receive MR has handle MrHandle(cmid, i).             *)
(***************************************************************************)
PrepareFrame ==
    /\ UNCHANGED <<pc, status, work, probe_disc, cmid_table, local_buffer, held,
                   comps, panic_msg, rx_outputs, cmd_tx>>
    /\ UNCHANGED envVars
    /\ UNCHANGED <<throttleVars, ctlVars, poolVars>>
    /\ UNCHANGED <<faults, hbufs, handles, duo>>

\* who builds a prepared cmid: process_cmd for Command::Connect, or
\* check_incoming_connection for a request of a listener
SetupKinds == {"Connect", "Accept"}

\* the call for the prepared cmid h: the RECV_DEPTH MRs are allocated
PrepareAlloc(h) ==
    /\ setup.phase \in {"idle", "failed"}
    /\ h \notin prepared
    /\ \E k \in SetupKinds :
          setup' = [cmid |-> h, posted |-> 0, inserted |-> 0, phase |-> "posting",
                    kind |-> k]
    /\ UNCHANGED prepared
    /\ PrepareFrame

\* pre_id.post_recv(recv_mr, .., wr_id)? for the next MR; the receive is
\* posted (ok) or the error of post_recv is returned
PreparePost(ok) ==
    /\ setup.phase = "posting"
    /\ setup.posted = setup.inserted
    /\ setup.posted < RECV_DEPTH
    /\ setup' = IF ok THEN [setup EXCEPT !.posted = @ + 1]
                      ELSE [setup EXCEPT !.phase = "failed"]
    /\ UNCHANGED prepared
    /\ PrepareFrame

\* wr_contexts.insert(wr_id, wr_ctx)? for the MR just posted; the insert
\* succeeds (ok) or its error is returned
PrepareInsert(ok) ==
    /\ setup.phase = "posting"
    /\ setup.posted = setup.inserted + 1
    /\ setup' = IF ok THEN [setup EXCEPT !.inserted = @ + 1]
                      ELSE [setup EXCEPT !.phase = "failed"]
    /\ UNCHANGED prepared
    /\ PrepareFrame

\* Ok((returned_mrs, fds)): every MR is posted and has its WrContext
PrepareReturn ==
    /\ setup.phase = "posting"
    /\ setup.inserted = RECV_DEPTH
    /\ prepared' = prepared \cup {setup.cmid}
    /\ setup' = [setup EXCEPT !.phase = "posted"]
    /\ PrepareFrame

NextPrepare ==
    \/ \E h \in Handles : PrepareAlloc(h)
    \/ \E ok \in BOOLEAN : PreparePost(ok)
    \/ \E ok \in BOOLEAN : PrepareInsert(ok)
    \/ PrepareReturn

SpecPrepare == Init /\ [][NextPrepare]_vars

\* the receive with wr_id w is posted by the call in progress
PostedInSetup(w) ==
    /\ setup.cmid # 0
    /\ \E i \in 1..setup.posted : w = MrHandle(setup.cmid, i)

\* the WR table holds a WrContext under wr_id w
InWrTable(w) ==
    \/ HasWrContext(w)
    \/ /\ setup.cmid # 0
       /\ \E i \in 1..setup.inserted : w = MrHandle(setup.cmid, i)

\* C30: at no point of prepare_recv_buffers is a receive posted whose wr_id
\* has no WrContext in the WR table: the WrContext of an MR is inserted
\* before the receive of that MR is posted.
C30_ContextBeforePost ==
    \A h \in Handles, i \in 1..RECV_DEPTH :
        PostedInSetup(MrHandle(h, i)) => InWrTable(MrHandle(h, i))


(***************************************************************************)
(* The set-up of a connection after prepare_recv_buffers, statement by     *)
(* statement: pre_id.connect(None)? or pre_id.accept(None)?, then          *)
(* insert_cmid(id, 128)? and the inserts into recv_mr_table, then the      *)
(* completion.                                                             *)
(***************************************************************************)
\* a faulty test that takes a prepared cmid for an established one
EstablishedOrPosted(s) == s.phase \in {"posted", "connected"}

\* `let id = pre_id.connect(None)?` / `pre_id.accept(None)?` has yielded id
Established(s) == s.phase = "connected"

\* pre_id.connect(None)? or pre_id.accept(None)? on the prepared cmid:
\* the transport establishes the connection (ok) or the error is returned
SetupConnect(ok) ==
    /\ setup.phase = "posted"
    /\ setup' = [setup EXCEPT !.phase = IF ok THEN "connected" ELSE "failed"]
    /\ UNCHANGED prepared
    /\ PrepareFrame

\* insert_cmid(id, 128)? and recv_mr_table.insert(..)? for every MR, then
\* the completion ConnectInternal or NewConnectionInternal is sent; a
\* failing insert_cmid (not ok) returns its error
SetupRegister(ok) ==
    /\ Established(setup)
    /\ IF ok
       THEN /\ cmid_table' = Insert(cmid_table, setup.cmid,
                                    NewConnectionContext(INITIAL_CREDIT))
            /\ cmd_tx' = Append(cmd_tx,
                  IF setup.kind = "Connect"
                  THEN ConnectInternal(setup.cmid, RecvMrs(setup.cmid))
                  ELSE NewConnectionInternal(setup.cmid, RecvMrs(setup.cmid)))
            /\ setup' = NoSetup
       ELSE /\ setup' = [setup EXCEPT !.phase = "failed"]
            /\ UNCHANGED <<cmid_table, cmd_tx>>
    /\ UNCHANGED <<pc, status, work, probe_disc, prepared, local_buffer, held,
                   comps, panic_msg, rx_outputs>>
    /\ UNCHANGED envVars
    /\ UNCHANGED <<throttleVars, ctlVars, poolVars>>
    /\ UNCHANGED <<faults, hbufs, handles, duo>>

NextSetup ==
    \/ \E h \in Handles : PrepareAlloc(h)
    \/ \E ok \in BOOLEAN : PreparePost(ok)
    \/ \E ok \in BOOLEAN : PrepareInsert(ok)
    \/ PrepareReturn
    \/ \E ok \in BOOLEAN : SetupConnect(ok)
    \/ \E ok \in BOOLEAN : SetupRegister(ok)

\* the set-up of connections, by Connect and by accepted requests
SpecSetup == Init /\ [][NextSetup]_vars

\* C31: connect/accept is initiated on a cmid only when all RECV_DEPTH
\* receives are posted for it and it is not in the connection table; a cmid
\* enters the connection table (and its MRs the recv-MR table) only in a
\* step that follows the success of its connect/accept; a cmid whose set-up
\* has failed is not in the connection table, and the failing step does not
\* insert it.
C31_SetupOrder ==
    /\ [](setup.phase = "failed" => setup.cmid \notin DOMAIN cmid_table)
    /\ [][/\ (setup.phase = "posted" /\ setup'.phase \in {"connected", "failed"}) =>
                /\ setup.posted = RECV_DEPTH
                /\ setup.cmid \in prepared
                /\ setup.cmid \notin DOMAIN cmid_table
          /\ \A h \in Handles :
                (h \in DOMAIN cmid_table' /\ h \notin DOMAIN cmid_table) =>
                    /\ setup.cmid = h
                    /\ setup.phase = "connected"
                    /\ setup.posted = RECV_DEPTH
          /\ setup'.phase = "failed" => cmid_table' = cmid_table]_vars

\* one connection was set up by Connect and is in the table; the accept of
\* a second, with all its receives posted, has failed
C31_Witness ==
    /\ setup.phase = "failed"
    /\ setup.kind = "Accept"
    /\ setup.posted = RECV_DEPTH
    /\ setup.cmid \in prepared
    /\ setup.cmid \notin DOMAIN cmid_table
    /\ \E k \in 1..Len(cmd_tx) : cmd_tx[k].kind = "ConnectInternal"


(***************************************************************************)
(* Concurrent obtain calls on a new pool, with no release: thread 1 calls  *)
(* obtain once, every other thread up to SLAB_BUFFERS times.               *)
(***************************************************************************)
RaceCall(t) ==
    /\ Len(owned[t]) < (IF t = 1 THEN 1 ELSE SLAB_BUFFERS)
    /\ ObtainAgain(t)

NextRace ==
    \/ \E t \in PoolThreads : RaceCall(t)
    \/ \E t \in PoolThreads : ObtainLock(t)
    \/ \E t \in PoolThreads : ObtainScan(t)
    \/ \E t \in PoolThreads : ObtainReplenish(t)

SpecRace == Init /\ [][NextRace]_vars

\* C32: for every interleaving of concurrent calls, a call of
\* BufferPool::obtain (its recursive calls included) adds at most one slab.
C32_OneSlabPerCall == \A t \in PoolThreads : grown[t] <= 1


\* the TX probe ends this resume() with the MR lookup error of a segment of
\* the message it popped for an established connection
SendFailed ==
    /\ pc = "check_input_queue"
    /\ local_buffer # <<>>
    /\ Head(local_buffer).conn_id \in DOMAIN cmid_table
    /\ pc' = "check_input_queue"
    /\ status' = "Err"

\* C33: a send that fails on an MR lookup leaves the engine as if the
\* message had not been sent: the credit and outstanding_req of every
\* connection are as before, and no segment of the message is posted.
C33_FailedSendAtomic ==
    [][SendFailed => (cmid_table' = cmid_table /\ wire' = wire)]_vars


\* the sends posted on connection h that its peer has not consumed
Unconsumed(h) == Len(wire[h]) - peer_pos[h]

\* C34: on every connection the segments sent to the peer (requests and
\* responses together) and not consumed by it never exceed the RECV_DEPTH
\* receives the peer has posted.
C34_ReceivePoolProtected ==
    \A h \in DOMAIN cmid_table : Unconsumed(h) <= RECV_DEPTH


(***************************************************************************)
(* Two engines that issue requests to each other over one connection.      *)
(* Each runs the TX probe (credit test, deduction, post) and the delivery  *)
(* of inbound messages (replenishment on a response) of the engine above;  *)
(* the transport carries whole messages in order.                          *)
(***************************************************************************)
Other(e) == 3 - e

DuoFrame == UNCHANGED <<engineVars, envVars, throttleVars, ctlVars, poolVars,
                        faults, setup, hbufs, handles>>

\* the application of engine e hands a request of sg segments to the TX
\* channel, from which the TX probe pushes it to the back of local_buffer
DuoRequest(e, sg) ==
    /\ duo.issued[e] < MaxDuoReqs
    /\ duo' = [duo EXCEPT
                 !.issued[e] = @ + 1,
                 !.local_buffer[e] = Append(@,
                     [msg_type |-> "Request", call_id |-> duo.issued[e] + 1,
                      sg_len |-> sg])]
    /\ DuoFrame

\* the application of engine e answers the oldest request delivered to it
DuoRespond(e) ==
    /\ duo.rx[e] # <<>>
    /\ duo' = [duo EXCEPT
                 !.rx[e] = Tail(@),
                 !.local_buffer[e] = Append(@,
                     [msg_type |-> "Response", call_id |-> Head(duo.rx[e]).call_id,
                      sg_len |-> 1])]
    /\ DuoFrame

\* `if conn_ctx.credit.load(Acquire) <= 5 { push_front(msg); break }`
CreditHolds(ctx, msg) == CreditLow(ctx.credit)

\* the TX probe of engine e pops the head of local_buffer and, its credit
\* being above LOW_WATER, deducts for a request and posts every segment
DuoSend(e) ==
    /\ duo.local_buffer[e] # <<>>
    /\ LET msg == Head(duo.local_buffer[e])
       IN /\ ~CreditHolds(duo.ctx[e], msg)
          /\ duo' = [duo EXCEPT
                       !.local_buffer[e] = Tail(@),
                       !.ctx[e] = Deduct(@, msg, Marshal(msg)),
                       !.net[Other(e)] = Append(@, msg)]
    /\ DuoFrame

\* engine e handles the completion of the last segment of the next inbound
\* message: a response replenishes, and the message is delivered up
DuoDeliver(e) ==
    /\ duo.net[e] # <<>>
    /\ LET msg == Head(duo.net[e])
           rep == Replenish(duo.ctx[e], msg)
       IN /\ rep.panic = "none"
          /\ duo' = [duo EXCEPT
                       !.net[e] = Tail(@),
                       !.ctx[e] = rep.ctx,
                       !.rx[e] = IF msg.msg_type = "Request" THEN Append(@, msg) ELSE @]
    /\ DuoFrame

NextDuo ==
    \/ \E e \in Engines, sg \in SgLens : DuoRequest(e, sg)
    \/ \E e \in Engines : DuoRespond(e)
    \/ \E e \in Engines : DuoSend(e)
    \/ \E e \in Engines : DuoDeliver(e)

\* Both engines and both applications keep running: a TX probe that can
\* post does so, an inbound message is handled, a delivered request is
\* answered.
SpecDuo ==
    /\ Init
    /\ [][NextDuo]_vars
    /\ \A e \in Engines :
          /\ WF_vars(DuoSend(e))
          /\ WF_vars(DuoDeliver(e))
          /\ WF_vars(DuoRespond(e))

\* engine e holds in its local FIFO the response to the request c of the
\* other engine
HoldsResponse(e, c) ==
    \E k \in 1..Len(duo.local_buffer[e]) :
        /\ duo.local_buffer[e][k].msg_type = "Response"
        /\ duo.local_buffer[e][k].call_id = c

\* C35: when two engines issue requests to each other over one connection,
\* every response handed to an engine's TX queue is eventually sent.
C35_ResponsesSent ==
    \A e \in Engines, c \in 1..MaxDuoReqs :
        HoldsResponse(e, c) ~> ~HoldsResponse(e, c)


(***************************************************************************)
(* The listeners: the application binds, the peers ask the bound listeners *)
(* for connections, and the tail of resume() sweeps.                       *)
(***************************************************************************)
\* one step of resume() on the control path with no command waiting
ListenerStep ==
    \/ TxRecvEmpty
    \/ CheckTransportService
    \/ CmdEmpty
    \/ TailReturn
    \/ CheckIncomingConnection

NextListeners ==
    \/ TxRecvEmpty
    \/ CheckTransportService
    \/ CmdEmpty
    \/ \E l \in Listeners : CmdBind(l)
    \/ TailReturn
    \/ SweepNoListener
    \/ SweepNoRequest
    \/ SweepAccept
    \/ \E l \in Listeners : PeerConnect(l)

\* The runtime keeps calling resume(), and the tail sweeps again and again
\* (at the latest when CMD_MAX_INTERVAL_MS have passed since the last sweep).
SpecListeners ==
    /\ Init
    /\ [][NextListeners]_vars
    /\ WF_vars(ListenerStep)
    /\ SF_vars(CheckIncomingConnection)

\* C36: every bound listener is swept: a connection request pending on any
\* bound listener is eventually accepted.
C36_EveryListenerSwept ==
    \A l \in Listeners :
        (l \in listener_table /\ pending[l] > 0) ~> (pending[l] = 0)

\* a request pending on the most recently bound listener is eventually
\* accepted, as long as the transport can name a new connection
RecentListenerSwept ==
    \A l \in Listeners :
        (recent_listener_handle = l /\ pending[l] > 0 /\ next_conn <= MaxConns)
            ~> (pending[l] = 0 \/ recent_listener_handle # l)


(***************************************************************************)
(* The locks of the pool: obtain, release, replenish and find, called by   *)
(* concurrent threads.                                                     *)
(***************************************************************************)
\* thread t calls BufferPool::find
FindCall(t) ==
    /\ pool_pc[t] = "idle"
    /\ pool_pc' = [pool_pc EXCEPT ![t] = "find"]
    /\ ret' = [ret EXCEPT ![t] = NoBuffer]
    /\ UNCHANGED <<slabs, slabs_lock, owned, releasing, grown, resident>>
    /\ PoolFrame

\* find: self.slabs.lock().iter().find_map(..) compares the handles of the
\* storages under the lock of the slab vector, touches no bitmap, drops the
\* lock and returns
FindScan(t) ==
    /\ pool_pc[t] = "find"
    /\ slabs_lock = 0
    /\ pool_pc' = [pool_pc EXCEPT ![t] = "idle"]
    /\ UNCHANGED <<slabs, slabs_lock, owned, releasing, ret, grown, resident>>
    /\ PoolFrame

\* a step of thread t inside a call of the pool, find included
LockStep(t) == PoolStep(t) \/ FindScan(t)

NextLocks ==
    \/ \E t \in PoolThreads : ObtainCall(t)
    \/ \E t \in PoolThreads : ObtainLock(t)
    \/ \E t \in PoolThreads : ObtainScan(t)
    \/ \E t \in PoolThreads : ObtainReplenish(t)
    \/ \E t \in PoolThreads, k \in 1..MaxOwned : ReleaseCall(t, k)
    \/ \E t \in PoolThreads : ReleaseLock(t)
    \/ \E t \in PoolThreads : ReleaseScan(t)
    \/ \E t \in PoolThreads : FindCall(t)
    \/ \E t \in PoolThreads : FindScan(t)

\* the pool with all four calls, used by threads that run
SpecLocks ==
    InitPool /\ [][NextLocks]_vars /\ \A t \in PoolThreads : SF_vars(LockStep(t))

\* thread t is inside a call of the pool and does not hold the lock of the
\* slab vector
Waiting(t) == pool_pc[t] \in {"obtain", "obtain_grow", "release", "find"}

\* C37: pool deadlock freedom: the lock of the slab vector is held only
\* inside the loop of obtain or release (never by an obtain that goes on to
\* replenish or to call itself), some thread inside a call can always take
\* a step, and every call of every thread returns.
C37_NoPoolDeadlock ==
    /\ [](slabs_lock # 0 => pool_pc[slabs_lock] \in {"obtain_scan", "release_scan"})
    /\ []((\E t \in PoolThreads : pool_pc[t] # "idle") =>
              ENABLED (\E t \in PoolThreads : LockStep(t)))
    /\ \A t \in PoolThreads : (pool_pc[t] # "idle") ~> (pool_pc[t] = "idle")

\* one thread holds the lock inside release while the other, having found
\* every slab full, waits for the lock to replenish
C37_Witness ==
    \E t, u \in PoolThreads :
        /\ slabs_lock = t
        /\ pool_pc[t] = "release_scan"
        /\ pool_pc[u] = "obtain_grow"
        /\ Waiting(u)


\* C38: growth under concurrency: with concurrent obtain calls and no
\* release, once every call has returned the pool has
\* ceil(outstanding / SLAB_BUFFERS) slabs, the outstanding buffers being
\* those handed out (two callers that found the pool full have not each
\* added a slab).
C38_ConcurrentGrowth ==
    (\A t \in PoolThreads : pool_pc[t] = "idle") =>
        Len(slabs) = (SetBits(slabs) + SLAB_BUFFERS - 1) \div SLAB_BUFFERS


\* the number of places of local_buffer that hold the application message i
HeldCount(i) == Cardinality({k \in 1..Len(local_buffer) : local_buffer[k].id = i})

\* the number of times the application message i has been posted in full
PostedCount(i) ==
    Cardinality(UNION {{<<h, k>> : k \in {j \in 1..Len(wire[h]) :
                                            wire[h][j].msg.id = i /\ wire[h][j].imm}} :
                       h \in Handles})

\* C39: no loss or duplication on the TX path: at the end of each resume(),
\* every message read from the TX channel is either held exactly once in
\* local_buffer or has been posted exactly once.
C39_NoLossNoDuplication ==
    pc = "check_input_queue" =>
        \A i \in 1..(next_msg - 1) : HeldCount(i) + PostedCount(i) = 1


(***************************************************************************)
(* The pool used by one thread: calls of obtain and release, one after the *)
(* other.                                                                  *)
(***************************************************************************)
\* the thread calls obtain while it holds fewer than MaxHeld buffers
SequentialCall ==
    /\ Len(owned[1]) < MaxHeld
    /\ ObtainAgain(1)

NextSequential ==
    \/ SequentialCall
    \/ ObtainLock(1)
    \/ ObtainScan(1)
    \/ ObtainReplenish(1)
    \/ \E k \in 1..MaxHeld : ReleaseCall(1, k)
    \/ ReleaseLock(1)
    \/ ReleaseScan(1)

SpecSequential == InitPool /\ [][NextSequential]_vars

\* every buffer of every slab of sl is in use
AllInUse(sl) == \A s \in 1..Len(sl) : Cardinality(sl[s]) = SLAB_BUFFERS

\* C40: first-fit reuse: with sequential calls, obtain adds a slab only
\* when every buffer of every slab is in use; otherwise it returns the
\* lowest-index free buffer of the earliest slab that has one (so a
\* released buffer is used again before the pool grows).
C40_FirstFitReuse ==
    [][/\ Len(slabs') > Len(slabs) => AllInUse(slabs)
       /\ (~AllInUse(slabs) /\ pool_pc[1] = "obtain_scan") =>
             LET b == ret'[1]
             IN /\ pool_pc'[1] = "idle"
                /\ b.slab \in 1..Len(slabs)
                /\ b.idx \in 0..(SLAB_BUFFERS - 1)
                /\ b.idx \notin slabs[b.slab]
                /\ \A j \in 0..(b.idx - 1) : j \in slabs[b.slab]
                /\ \A r \in 1..(b.slab - 1) : Cardinality(slabs[r]) = SLAB_BUFFERS
                /\ slabs' = [slabs EXCEPT ![b.slab] = @ \cup {b.idx}]]_vars

\* the thread holds the second buffer of the second slab and has been given
\* again the first one, which it had released
C40_Witness ==
    /\ pool_pc[1] = "idle"
    /\ Len(slabs) = 2
    /\ owned[1] = <<RecvBuffer(2, 1), RecvBuffer(2, 0)>>
    /\ ret[1] = RecvBuffer(2, 0)

====
